---------------------------- MODULE Spec2Model ----------------------------
(***************************************************************************)
(* Reddit News Bot: the automation core of App (scheduler, fetch cycle,    *)
(* post cycle, article queue, scoring, duplicate detection, bias store).   *)
(*                                                                         *)
(* A text is a sequence of one-character strings; a word produced by the   *)
(* tokenizer is a string.  Times are in minutes.                           *)
(***************************************************************************)
EXTENDS Integers, Sequences, FiniteSets, TLC

(***************************************************************************)
(* Bounds of the model.                                                    *)
(***************************************************************************)
\* post loops (postLoop closures) alive at once
MaxLoops == 2
\* fetch cycles awaiting the feed service at once
MaxFetches == 2
\* post cycles and fetch cycles awaiting an answer at once
MaxInFlight == 2
\* the clock stops advancing here
MaxNow == 3
\* the longest a submission takes, in minutes
MaxElapsed == 0
\* the longest a submission takes, in minutes, where the clock is followed
MaxElapsedTimed == 1
\* links the user removes from the queue
MaxRemoved == 1
\* entries of postingHistory beyond which no post cycle is started
MaxHistory == 1
\* the same where the duplicate check is switched off
MaxReposts == 2
\* post loops and fetch cycles alive at once when the queue starts almost full
MaxLoopsCap == 1
MaxFetchesCap == 1

(***************************************************************************)
(* Program constants.                                                      *)
(***************************************************************************)
MAX_PENDING_ARTICLES == 50
FETCH_INTERVAL_MINUTES == 5
\* slice(0, 50) of the history titles handed to the duplicate detector
HISTORY_TITLES_LIMIT == 50
MinutesPerHour == 60

NL == "\n"

(***************************************************************************)
(* Generic sequence helpers (the JavaScript array and string methods the   *)
(* code uses).                                                             *)
(***************************************************************************)
Range(s) == {s[i] : i \in DOMAIN s}

\* Array.prototype.map
MapSeq(s, F(_)) == [i \in DOMAIN s |-> F(s[i])]

\* Array.prototype.slice(0, n)
Take(s, n) == SubSeq(s, 1, IF n < Len(s) THEN n ELSE Len(s))

\* f[k] where f is defined, else d
Lookup(f, k, d) == IF k \in DOMAIN f THEN f[k] ELSE d

\* String.prototype.includes
StrIncludes(text, kw) ==
    \E i \in 1..(Len(text) - Len(kw) + 1) : SubSeq(text, i, i + Len(kw) - 1) = kw

RECURSIVE SplitOn(_, _, _)
\* String.prototype.split on the characters of seps, each occurrence a cut;
\* cur is the piece being read
SplitOn(s, seps, cur) ==
    IF s = <<>> THEN <<cur>>
    ELSE IF Head(s) \in seps THEN <<cur>> \o SplitOn(Tail(s), seps, <<>>)
    ELSE SplitOn(Tail(s), seps, Append(cur, Head(s)))

Split(s, seps) == SplitOn(s, seps, <<>>)

RECURSIVE Join(_)
\* the string made of the characters of s
Join(s) == IF s = <<>> THEN "" ELSE Head(s) \o Join(Tail(s))

\* a sort key: the comparator's first and second criterion
Keyed(item, k1, k2) == [item |-> item, k1 |-> k1, k2 |-> k2]

KeyBefore(a, b) == a.k1 < b.k1 \/ (a.k1 = b.k1 /\ a.k2 < b.k2)

RECURSIVE InsertKeyed(_, _)
\* x inserted into the sorted s after every element it does not precede
InsertKeyed(x, s) ==
    IF s = <<>> THEN <<x>>
    ELSE IF ~KeyBefore(x, s[Len(s)]) THEN Append(s, x)
    ELSE Append(InsertKeyed(x, SubSeq(s, 1, Len(s) - 1)), s[Len(s)])

RECURSIVE SortKeyed(_)
\* Array.prototype.sort, stable, of keyed items: ascending in (k1, k2)
SortKeyed(s) ==
    IF s = <<>> THEN <<>>
    ELSE InsertKeyed(s[Len(s)], SortKeyed(SubSeq(s, 1, Len(s) - 1)))

Items(s) == [i \in DOMAIN s |-> s[i].item]

RECURSIVE SumOn(_, _)
\* the sum of f over the set S
SumOn(f, S) ==
    IF S = {} THEN 0
    ELSE LET x == CHOOSE y \in S : TRUE IN f[x] + SumOn(f, S \ {x})

UpperCase == <<"A", "B", "C", "D", "E", "F", "G", "H", "I", "J", "K", "L", "M",
               "N", "O", "P", "Q", "R", "S", "T", "U", "V", "W", "X", "Y", "Z">>
LowerCase == <<"a", "b", "c", "d", "e", "f", "g", "h", "i", "j", "k", "l", "m",
               "n", "o", "p", "q", "r", "s", "t", "u", "v", "w", "x", "y", "z">>
Digits == <<"0", "1", "2", "3", "4", "5", "6", "7", "8", "9">>

ToLowerChar(c) ==
    IF \E i \in DOMAIN UpperCase : UpperCase[i] = c
    THEN LowerCase[CHOOSE i \in DOMAIN UpperCase : UpperCase[i] = c]
    ELSE c

\* String.prototype.toLowerCase
ToLowerCase(s) == MapSeq(s, ToLowerChar)

\* \s of a regular expression
IsSpace(c) == c \in {" ", NL, "\t"}

\* \w of a regular expression
IsWordChar(c) == c \in Range(UpperCase) \cup Range(LowerCase) \cup Range(Digits) \cup {"_"}

RECURSIVE TrimStart(_)
TrimStart(s) == IF s # <<>> /\ IsSpace(Head(s)) THEN TrimStart(Tail(s)) ELSE s

RECURSIVE TrimEnd(_)
TrimEnd(s) ==
    IF s # <<>> /\ IsSpace(s[Len(s)]) THEN TrimEnd(SubSeq(s, 1, Len(s) - 1)) ELSE s

\* String.prototype.trim
Trim(s) == TrimEnd(TrimStart(s))

(***************************************************************************)
(* Links.  A link that new URL() parses is held in its parsed form; one    *)
(* that it rejects is held as its raw text.                                *)
(***************************************************************************)
Url(hostname, pathname, search, hash) ==
    [valid |-> TRUE, raw |-> "", hostname |-> hostname, pathname |-> pathname,
     search |-> search, hash |-> hash]

NotAUrl(raw) ==
    [valid |-> FALSE, raw |-> raw, hostname |-> <<>>, pathname |-> <<>>,
     search |-> <<>>, hash |-> ""]

paramsToRemove == {"utm_source", "utm_medium", "utm_campaign", "utm_term", "utm_content",
                   "ref", "mc_cid", "mc_eid", "fbclid", "gclid"}

\* the query parameter names of the model, in code-unit order
ParamNames == <<"fbclid", "gclid", "id", "mc_cid", "mc_eid", "page", "ref",
                "utm_campaign", "utm_content", "utm_medium", "utm_source", "utm_term">>

ParamRank(name) == CHOOSE i \in DOMAIN ParamNames : ParamNames[i] = name

\* URLSearchParams.prototype.sort: by name, stable
SortParams(search) ==
    Items(SortKeyed([i \in DOMAIN search |-> Keyed(search[i], ParamRank(search[i].name), 0)]))

\* a normalization that returns every link as it is
RawLink(urlString) == urlString

normalizeUrl(urlString) ==
    IF ~urlString.valid THEN urlString
    ELSE LET kept == SelectSeq(urlString.search, LAMBDA p : p.name \notin paramsToRemove)
             path == urlString.pathname
             pathname == IF Len(path) > 1 /\ path[Len(path)] = "/"
                         THEN SubSeq(path, 1, Len(path) - 1)
                         ELSE path
         IN  [urlString EXCEPT !.search = SortParams(kept),
                               !.hash = "",
                               !.pathname = pathname]

\* String.prototype.replace(/^www\./, '')
StripWww(host) ==
    IF Len(host) >= 4 /\ SubSeq(host, 1, 4) = <<"w", "w", "w", ".">>
    THEN SubSeq(host, 5, Len(host))
    ELSE host

getDomainFromUrl(urlString) ==
    IF ~urlString.valid THEN <<>> ELSE StripWww(ToLowerCase(urlString.hostname))


(***************************************************************************)
(* The articles the feeds of the model publish, the settings its user      *)
(* saves and the answers of the publishing client.                         *)
(***************************************************************************)
Article(link, title, pubDate, description) ==
    [id |-> link, title |-> title, link |-> link, sourceName |-> "feed",
     pubDate |-> pubDate, description |-> description]

LinkGta == Url(<<"w", "w", "w", ".", "i", "g", "n", ".", "c", "o", "m">>,
               <<"/", "n", "e", "w", "s", "/", "g", "t", "a">>, <<>>, "")
LinkGtaTracked == [LinkGta EXCEPT !.search = <<[name |-> "utm_source", value |-> "rss"]>>]
LinkMod == Url(<<"x", ".", "c", "o", "m">>,
               <<"/", "n", "e", "w", "s", "/", "m", "o", "d", "/">>, <<>>, "")
LinkDeal == Url(<<"x", ".", "c", "o", "m">>, <<"/", "d", "e", "a", "l">>, <<>>, "")

\* "GTA Release Date", published half an hour before the start
ArtGta == Article(LinkGta,
    <<"G", "T", "A", " ", "R", "e", "l", "e", "a", "s", "e", " ", "D", "a", "t", "e">>,
    0 - 30, <<>>)
\* the same story under a link with a tracking parameter
ArtGtaTracked == Article(LinkGtaTracked,
    <<"G", "T", "A", " ", "R", "e", "l", "e", "a", "s", "e", " ", "D", "a", "t", "e">>,
    0 - 30, <<"r", "s", "s">>)
\* "Mod Tools Update", ten hours old
ArtMod == Article(LinkMod,
    <<"M", "o", "d", " ", "T", "o", "o", "l", "s", " ", "U", "p", "d", "a", "t", "e">>,
    0 - 600, <<>>)
\* "Big Deal Week", a day old: scores below every minimum of the model
ArtDeal == Article(LinkDeal,
    <<"B", "i", "g", " ", "D", "e", "a", "l", " ", "W", "e", "e", "k">>,
    0 - 1440, <<>>)

\* "Deal Of The Day", older still and excluded like "Big Deal Week"
ArtSale == Article(Url(<<"x", ".", "c", "o", "m">>, <<"/", "s", "a", "l", "e">>, <<>>, ""),
    <<"D", "e", "a", "l", " ", "O", "f", " ", "T", "h", "e", " ", "D", "a", "y">>,
    0 - 1500, <<>>)
\* "GTA Release Date" as another page told it three days before the start
ArtGtaEarlier ==
    Article(Url(<<"x", ".", "c", "o", "m">>, <<"/", "g", "t", "a">>, <<>>, ""),
    <<"G", "T", "A", " ", "R", "e", "l", "e", "a", "s", "e", " ", "D", "a", "t", "e">>,
    0 - 4320, <<>>)

\* what one retrieval of the feeds can return; nothing when the feed service
\* fails
FeedBatches == {<<>>, <<ArtGta, ArtGtaTracked>>, <<ArtMod>>}

\* "Old Story" number n of a source with authority, older than every article
\* the feeds publish
OldStory(n) ==
    Article(Url(<<"i", "g", "n", ".", "c", "o", "m">>,
                <<"/", Digits[(n \div 10) + 1], Digits[(n % 10) + 1]>>, <<>>, ""),
            <<"O", "l", "d", " ", "S", "t", "o", "r", "y">>, 0 - 2000 - n, <<>>)

\* a queue one short of its capacity, as an earlier session can leave it
AlmostFullQueue == [n \in 1..(MAX_PENDING_ARTICLES - 1) |-> OldStory(n)]

\* a queue at its capacity
FullQueue == [n \in 1..MAX_PENDING_ARTICLES |-> OldStory(n)]

\* "Patch Update", the newest article of the model
ArtPatch == Article(Url(<<"x", ".", "c", "o", "m">>, <<"/", "p", "a", "t", "c", "h">>, <<>>, ""),
    <<"P", "a", "t", "c", "h", " ", "U", "p", "d", "a", "t", "e">>,
    0 - 10, <<>>)
\* "New Controller Leaked", the title of the spec's rejection scenario
ArtController == Article(Url(<<"x", ".", "c", "o", "m">>, <<"/", "p", "a", "d">>, <<>>, ""),
    <<"N", "e", "w", " ", "C", "o", "n", "t", "r", "o", "l", "l", "e", "r", " ",
      "L", "e", "a", "k", "e", "d">>,
    0 - 20, <<>>)

\* every article of the model
Catalogue ==
    {ArtGta, ArtGtaTracked, ArtMod, ArtDeal, ArtSale, ArtGtaEarlier, ArtPatch, ArtController}
    \cup Range(AlmostFullQueue) \cup Range(FullQueue)

\* normalizeUrl over the links of the catalogue, computed once
normalizedUrls == [link \in {a.link : a \in Catalogue} |-> normalizeUrl(link)]

\* normalizeUrl(urlString)
NormalizedUrl(urlString) == Lookup(normalizedUrls, urlString, normalizeUrl(urlString))

\* settings as the settings page hands them over
BaseSettings ==
    [targetSubreddit |-> "gaming", checkInterval |-> 15, postLimit |-> 2,
     includeKeywords |-> <<"r", "e", "l", "e", "a", "s", "e", " ", "d", "a", "t", "e", ":",
                           " ", "1", "0", NL, "u", "p", "d", "a", "t", "e", ":", " ", "5">>,
     excludeKeywords |-> <<"d", "e", "a", "l">>,
     sourceAuthorityScores |-> <<"i", "g", "n", ".", "c", "o", "m", ":", " ", "5">>,
     minimumScore |-> 5,
     useProactiveDuplicateCheck |-> TRUE, useAdaptiveLearning |-> TRUE]

SettingsInputs ==
    {BaseSettings,
     [BaseSettings EXCEPT !.checkInterval = 30]}

\* the settings page raising the minimum score along with the interval
TunedSettings == [BaseSettings EXCEPT !.minimumScore = 10, !.checkInterval = 30]
TunedSettingsInputs == {BaseSettings, TunedSettings}

\* the settings page asking for a post every minute
TimedSettings == [BaseSettings EXCEPT !.checkInterval = 1]

\* the publish locations the publishing client returns
PostedUrls == {"https://redd.it/1"}

\* the ways a submission ends: published, refused as already submitted,
\* failed otherwise
SubmitOutcomes ==
    {[kind |-> "ok", url |-> u] : u \in PostedUrls}
    \cup {[kind |-> "already", url |-> ""], [kind |-> "error", url |-> ""]}

(***************************************************************************)
(* Tokenizer and semantic duplicate detector (utils.ts).                   *)
(***************************************************************************)
STOP_WORDS == {
    "a", "about", "above", "after", "again", "against", "all", "am", "an", "and",
    "any", "are", "aren't", "as", "at", "be", "because", "been", "before", "being",
    "below", "between", "both", "but", "by", "can", "can't", "cannot", "com", "could",
    "couldn't", "did", "didn't", "do", "does", "doesn't", "doing", "don't", "down",
    "during", "each", "few", "for", "from", "further", "had", "hadn't", "has",
    "hasn't", "have", "haven't", "having", "he", "he'd", "he'll", "he's", "her",
    "here", "here's", "hers", "herself", "him", "himself", "his", "how", "how's", "i",
    "i'd", "i'll", "i'm", "i've", "if", "in", "into", "is", "isn't", "it", "it's",
    "its", "itself", "just", "k", "let's", "like", "me", "more", "most", "mustn't",
    "my", "myself", "no", "nor", "not", "now", "of", "off", "on", "once", "only", "or",
    "other", "our", "ours", "ourselves", "out", "over", "own", "r", "same", "shan't",
    "she", "she'd", "she'll", "she's", "should", "shouldn't", "so", "some", "such",
    "than", "that", "that's", "the", "their", "theirs", "them", "themselves", "then",
    "there", "there's", "these", "they", "they'd", "they'll", "they're", "they've",
    "this", "those", "through", "to", "too", "under", "until", "up", "very", "was",
    "wasn't", "we", "we'd", "we'll", "we're", "we've", "were", "weren't", "what",
    "what's", "when", "when's", "where", "where's", "which", "while", "who", "who's",
    "whom", "why", "why's", "will", "with", "won't", "would", "wouldn't", "you",
    "you'd", "you'll", "you're", "you've", "your", "yours", "yourself", "yourselves"}

\* text.toLowerCase().replace(/[^\w\s]/g, '').split(/\s+/): a run of
\* whitespace is one cut, so the pieces between two adjacent whitespace
\* characters are dropped; the empty pieces at the ends have length 0 and
\* are dropped by the length filter below
SplitWhitespace(s) == SelectSeq(Split(s, {" ", NL, "\t"}), LAMBDA w : w # <<>>)

\* a tokenizer that also drops the words of up to three characters
WordListOverThree(text) ==
    SelectSeq(MapSeq(SplitWhitespace(SelectSeq(ToLowerCase(text),
                                               LAMBDA c : IsWordChar(c) \/ IsSpace(c))),
                     Join),
              LAMBDA w : Len(w) > 3 /\ w \notin STOP_WORDS)

\* the words normalizeAndGetWords adds to its Set, in the order it adds them
WordList(text) ==
    SelectSeq(MapSeq(SplitWhitespace(SelectSeq(ToLowerCase(text),
                                               LAMBDA c : IsWordChar(c) \/ IsSpace(c))),
                     Join),
              LAMBDA w : Len(w) > 1 /\ w \notin STOP_WORDS)

normalizeAndGetWords(text) == Range(WordList(text))

\* normalizeAndGetWords of the titles of the catalogue, computed once
titleWordSets == [t \in {a.title : a \in Catalogue} |-> normalizeAndGetWords(t)]

\* normalizeAndGetWords(title)
WordsOfTitle(title) == Lookup(titleWordSets, title, normalizeAndGetWords(title))

\* the words in first-occurrence order (the insertion order of the Set)
RECURSIVE Distinct(_)
Distinct(s) ==
    IF s = <<>> THEN <<>>
    ELSE LET init == Distinct(SubSeq(s, 1, Len(s) - 1))
         IN  IF s[Len(s)] \in Range(init) THEN init ELSE Append(init, s[Len(s)])

\* Array.from(normalizeAndGetWords(text))
extractSignificantKeywords(text) == Distinct(WordList(text))

\* a comparison that takes only a similarity above the threshold
SimilarityAbove(set1, set2, num, den) ==
    LET intersectionSize == Cardinality(set1 \cap set2)
        unionSize == Cardinality(set1 \cup set2)
    IN  IF unionSize = 0 THEN 0 > num
        ELSE intersectionSize * den > num * unionSize

\* similarity >= threshold, the threshold given as the fraction num / den
SimilarityAtLeast(set1, set2, num, den) ==
    LET intersectionSize == Cardinality(set1 \cap set2)
        unionSize == Cardinality(set1 \cup set2)
    IN  IF unionSize = 0 THEN 0 >= num
        ELSE intersectionSize * den >= num * unionSize

\* the default similarityThreshold, 0.5
ThresholdNum == 1
ThresholdDen == 2

\* lines 111-122: newTitleWords is similar enough to a title of the history
IsDuplicate(newTitleWords, historyTitleWordSets) ==
    \E h \in DOMAIN historyTitleWordSets :
        SimilarityAtLeast(newTitleWords, historyTitleWordSets[h], ThresholdNum, ThresholdDen)

\* lines 108-124, given the word sets of the history titles
DuplicatesAgainst(newArticles, historyTitleWordSets) ==
    MapSeq(SelectSeq(newArticles, LAMBDA article :
                        IsDuplicate(WordsOfTitle(article.title), historyTitleWordSets)),
           LAMBDA article : article.id)

findLocalSemanticDuplicates(newArticles, historyTitles) ==
    IF Len(newArticles) = 0 \/ Len(historyTitles) = 0 THEN <<>>
    ELSE DuplicatesAgainst(newArticles, MapSeq(historyTitles, WordsOfTitle))

(***************************************************************************)
(* Scoring engine (utils.ts).                                              *)
(***************************************************************************)
NaN == [nan |-> TRUE, val |-> 0]
Num(n) == [nan |-> FALSE, val |-> n]

DigitValue(c) == (CHOOSE i \in DOMAIN Digits : Digits[i] = c) - 1

RECURSIVE DigitsValue(_, _)
\* the value of the leading digits of s, after the digits read so far (acc)
DigitsValue(s, acc) ==
    IF s # <<>> /\ Head(s) \in Range(Digits)
    THEN DigitsValue(Tail(s), 10 * acc + DigitValue(Head(s)))
    ELSE acc

\* parseInt(s, 10)
\* the number whose digits lead body, negated if negative; NaN without a digit
SignedDigits(negative, body) ==
    IF body = <<>> \/ Head(body) \notin Range(Digits) THEN NaN
    ELSE Num(IF negative THEN 0 - DigitsValue(body, 0) ELSE DigitsValue(body, 0))

\* parseInt of a string without leading whitespace
ParseTrimmed(t) ==
    IF t # <<>> /\ Head(t) \in {"-", "+"} THEN SignedDigits(Head(t) = "-", Tail(t))
    ELSE SignedDigits(FALSE, t)

\* parseInt(s, 10)
parseInt(s) == ParseTrimmed(TrimStart(s))

\* a Map as a function; set(k, v) overwrites
MapSet(m, k, v) == (k :> v) @@ m
EmptyMap == [k \in {} |-> 0]

\* lines 143-148: the map after a line "keyword: score"
SetScored(keywordMap, keyword, score) ==
    IF keyword # <<>> /\ ~score.nan THEN MapSet(keywordMap, keyword, score.val)
    ELSE keywordMap

\* lines 141-151: the map after line, whose pieces around ":" are parts
SetLine(keywordMap, line, parts, defaultScore) ==
    IF Len(parts) = 2 THEN SetScored(keywordMap, Trim(parts[1]), parseInt(Trim(parts[2])))
    ELSE IF line # <<>> THEN MapSet(keywordMap, line, defaultScore)
    ELSE keywordMap

RECURSIVE parseLines(_, _, _)
\* lines.forEach of lines 140-152
parseLines(lines, defaultScore, keywordMap) ==
    IF lines = <<>> THEN keywordMap
    ELSE parseLines(Tail(lines), defaultScore,
                    SetLine(keywordMap, Head(lines), Split(Head(lines), {":"}), defaultScore))

parseKeywordsWithScores(keywordsString, defaultScore) ==
    parseLines(MapSeq(SelectSeq(Split(keywordsString, {NL}), LAMBDA l : l # <<>>),
                      LAMBDA l : ToLowerCase(Trim(l))),
               defaultScore, EmptyMap)

Abs(n) == IF n < 0 THEN 0 - n ELSE n

\* Math.ceil(value * 0.5) for an integer value
CeilHalf(value) == IF value >= 0 THEN (value + 1) \div 2 ELSE 0 - ((0 - value) \div 2)

RecencyBoost(hoursAgoMinutes) ==
    IF hoursAgoMinutes <= 2 * MinutesPerHour THEN 5
    ELSE IF hoursAgoMinutes <= 6 * MinutesPerHour THEN 3
    ELSE IF hoursAgoMinutes <= 12 * MinutesPerHour THEN 1
    ELSE 0

\* biases: the learned bias map, or NoBiases when adaptive learning is off
NoBiases == [absent |-> TRUE, map |-> EmptyMap]
Biases(map) == [absent |-> FALSE, map |-> map]

\* lines 179-192: baseScore, the values of the keywords found in the title or
\* the description
BaseScore(scoredKeywords, titleLower, descriptionLower) ==
    SumOn(scoredKeywords,
          {k \in DOMAIN scoredKeywords :
              StrIncludes(titleLower, k) \/ StrIncludes(descriptionLower, k)})

\* a title boost that takes the keywords of the title whatever their sign
TitleBoostAnySign(scoredKeywords, titleLower) ==
    SumOn([k \in DOMAIN scoredKeywords |-> CeilHalf(scoredKeywords[k])],
          {k \in DOMAIN scoredKeywords : StrIncludes(titleLower, k)})

\* lines 187-190: titleBoost, half the value (rounded up) of the positive
\* keywords found in the title
TitleBoost(scoredKeywords, titleLower) ==
    SumOn([k \in DOMAIN scoredKeywords |-> CeilHalf(scoredKeywords[k])],
          {k \in DOMAIN scoredKeywords : StrIncludes(titleLower, k) /\ scoredKeywords[k] > 0})

\* lines 212-218
SourceAuthority(sourceAuthorityMap, domain) ==
    IF domain # <<>> /\ domain \in DOMAIN sourceAuthorityMap
    THEN sourceAuthorityMap[domain] ELSE 0

\* lines 221-229
LearnedBias(learnedBiasMap, words) ==
    IF learnedBiasMap.absent THEN 0
    ELSE SumOn(learnedBiasMap.map, words \cap DOMAIN learnedBiasMap.map)

\* lines 231-232
ScoreDetails(baseScore, titleBoost, recency, sourceAuthority, learnedBias) ==
    [base |-> baseScore, titleBoost |-> titleBoost, recency |-> recency,
     sourceAuthority |-> sourceAuthority, learnedBias |-> learnedBias,
     total |-> baseScore + titleBoost + recency + sourceAuthority + learnedBias]

calculateArticleScore(article, scoredKeywords, sourceAuthorityMap, learnedBiasMap, dateNow) ==
    ScoreDetails(BaseScore(scoredKeywords, ToLowerCase(article.title),
                           ToLowerCase(article.description)),
                 TitleBoost(scoredKeywords, ToLowerCase(article.title)),
                 RecencyBoost(dateNow - article.pubDate),
                 SourceAuthority(sourceAuthorityMap, getDomainFromUrl(article.link)),
                 LearnedBias(learnedBiasMap, WordsOfTitle(article.title)))

(***************************************************************************)
(* The synchronous parts of the cycles (App): each runs to completion      *)
(* between two suspension points.                                          *)
(***************************************************************************)
NormalizedLinks(articles) == {NormalizedUrl(articles[i].link) : i \in DOMAIN articles}

HistoryLinks(history) == {NormalizedUrl(history[i].url) : i \in DOMAIN history}

\* a merge that keeps every entry, whatever its link
KeepEveryLink(s, seen) == s

RECURSIVE KeepFirstByLink(_, _)
\* combined.filter((article, index, self) => index === self.findIndex(same
\* normalized link)): seen holds the normalized links of the entries before s
KeepFirstByLink(s, seen) ==
    IF s = <<>> THEN <<>>
    ELSE IF NormalizedUrl(Head(s).link) \in seen THEN KeepFirstByLink(Tail(s), seen)
    ELSE <<Head(s)>> \o KeepFirstByLink(Tail(s), seen \cup {NormalizedUrl(Head(s).link)})

\* a sort that leaves the articles in the order it finds them
KeepOrder(articles) == articles

\* sort((a, b) => new Date(b.pubDate) - new Date(a.pubDate))
SortByDateDesc(articles) ==
    Items(SortKeyed([i \in DOMAIN articles |-> Keyed(articles[i], 0 - articles[i].pubDate, 0)]))

\* lines 294-300: the fetched articles not known under urlsToExclude
UniqueNewArticles(newArticles, urlsToExclude) ==
    SelectSeq(newArticles, LAMBDA a : NormalizedUrl(a.link) \notin urlsToExclude)

\* a merge that never cuts the queue
MergedQueueUncut(pending, uniqueNewArticles) ==
    SortByDateDesc(KeepFirstByLink(pending \o uniqueNewArticles, {}))

\* a merge that cuts the queue without sorting it
MergedQueueUnsorted(pending, uniqueNewArticles) ==
    Take(KeepFirstByLink(pending \o uniqueNewArticles, {}), MAX_PENDING_ARTICLES)

\* lines 308-314: updatedPending
MergedQueue(pending, uniqueNewArticles) ==
    Take(SortByDateDesc(KeepFirstByLink(pending \o uniqueNewArticles, {})),
         MAX_PENDING_ARTICLES)

\* lines 288-320 given uniqueNewArticles: whether a queue is saved, and the queue
SaveMerge(pending, newArticles, uniqueNewArticles) ==
    IF Len(newArticles) = 0 \/ Len(uniqueNewArticles) = 0
    THEN [saved |-> FALSE, pending |-> pending]
    ELSE [saved |-> TRUE, pending |-> MergedQueue(pending, uniqueNewArticles)]

\* a merge in which the fetched articles precede the queued ones and are
\* excluded only for published and removed links
FetchMergeNewFirst(pending, history, removed, newArticles) ==
    LET fresh == UniqueNewArticles(newArticles, HistoryLinks(history) \cup removed)
        unknown == UniqueNewArticles(newArticles,
                       HistoryLinks(history) \cup NormalizedLinks(pending) \cup removed)
    IN  IF Len(newArticles) = 0 \/ Len(unknown) = 0
        THEN [saved |-> FALSE, pending |-> pending]
        ELSE [saved |-> TRUE,
              pending |-> Take(SortByDateDesc(KeepFirstByLink(fresh \o pending, {})),
                               MAX_PENDING_ARTICLES)]

\* runFetchCycle after the feeds answered, on the state its closure captured:
\* whether it saves a queue, and the queue it saves
FetchMerge(pending, history, removed, newArticles) ==
    SaveMerge(pending, newArticles,
              UniqueNewArticles(newArticles,
                                HistoryLinks(history) \cup NormalizedLinks(pending)
                                    \cup removed))

\* a combination in which the inclusion list is written last
CombineInclusionLast(inclusionMap, exclusionMap) ==
    [k \in DOMAIN inclusionMap \cup DOMAIN exclusionMap |->
        IF k \in DOMAIN inclusionMap THEN Abs(inclusionMap[k])
        ELSE 0 - Abs(exclusionMap[k])]

\* lines 202-204: inclusion weights made positive, exclusion weights made
\* negative and written last
CombineKeywords(inclusionMap, exclusionMap) ==
    [k \in DOMAIN inclusionMap \cup DOMAIN exclusionMap |->
        IF k \in DOMAIN exclusionMap THEN 0 - Abs(exclusionMap[k])
        ELSE Abs(inclusionMap[k])]

\* lines 198-204
combinedScoredKeywords(settings) ==
    CombineKeywords(parseKeywordsWithScores(settings.includeKeywords, 1),
                    parseKeywordsWithScores(settings.excludeKeywords, 1))

\* the settings the program can hold: those saved, and those it starts with
SettingsValues ==
    LET inputs == SettingsInputs \cup TunedSettingsInputs \cup {TimedSettings}
    IN  inputs \cup {[s EXCEPT !.targetSubreddit = ""] : s \in inputs}

\* combinedScoredKeywords over the settings of the model, computed once
keywordMaps == [s \in SettingsValues |-> combinedScoredKeywords(s)]

\* line 199, sourceAuthorityMap, over the settings of the model, computed once
sourceAuthorityMaps ==
    [s \in SettingsValues |-> parseKeywordsWithScores(s.sourceAuthorityScores, 0)]

\* lines 200, 206-208: the scoreDetails scoreAndFilterArticles gives article
ArticleScore(article, settings, biases, dateNow) ==
    calculateArticleScore(article,
                          Lookup(keywordMaps, settings, combinedScoredKeywords(settings)),
                          Lookup(sourceAuthorityMaps, settings,
                                 parseKeywordsWithScores(settings.sourceAuthorityScores, 0)),
                          IF settings.useAdaptiveLearning THEN Biases(biases) ELSE NoBiases,
                          dateNow)

RECURSIVE ResetAll(_, _)
\* a learning step that forgets what it learned about the words before
ResetAll(biases, keywords) ==
    IF keywords = <<>> THEN biases
    ELSE ResetAll(MapSet(biases, Head(keywords), 0 - 1), Tail(keywords))

RECURSIVE DecrementAll(_, _)
\* keywords.forEach(word => newBiases.set(word, (newBiases.get(word) || 0) - 1))
DecrementAll(biases, keywords) ==
    IF keywords = <<>> THEN biases
    ELSE LET word == Head(keywords)
             old == IF word \in DOMAIN biases THEN biases[word] ELSE 0
         IN  DecrementAll(MapSet(biases, word, old - 1), Tail(keywords))

\* the BiasMap an earlier session can leave in localStorage
PersistedBiases == MapSet(MapSet(EmptyMap, "leaked", 0 - 2), "story", 0 - 1)

\* the settings and the bias maps the model reaches with one removal
BiasValues ==
    {EmptyMap} \cup {DecrementAll(EmptyMap, extractSignificantKeywords(a.title)) : a \in Catalogue}
    \cup {PersistedBiases,
          DecrementAll(PersistedBiases, extractSignificantKeywords(ArtController.title))}

\* ArticleScore over the catalogue, computed once
\* at the start of the clock, a table per settings and per bias map
articleScores ==
    [s \in SettingsValues |->
        [b \in BiasValues |-> [a \in Catalogue |-> ArticleScore(a, s, b, 0)]]]

\* the articles the feeds return where the clock is followed
TimedFeedBatches == {<<>>, <<ArtGta, ArtMod>>}

\* ArticleScore at the later times of the clock, computed once
timedArticleScores ==
    [t \in 1..MaxNow |->
        [s \in {TimedSettings, [TimedSettings EXCEPT !.targetSubreddit = ""]} |->
            [b \in {EmptyMap,
                    DecrementAll(EmptyMap, extractSignificantKeywords(ArtMod.title))} |->
                [a \in UNION {Range(batch) : batch \in TimedFeedBatches} |->
                    ArticleScore(a, s, b, t)]]]]

\* ArticleScore(article, settings, biases, dateNow), read from the tables
\* where they hold it
ScoreOf(article, settings, biases, dateNow) ==
    IF dateNow = 0
    THEN Lookup(Lookup(Lookup(articleScores, settings, EmptyMap), biases, EmptyMap),
                article, ArticleScore(article, settings, biases, dateNow))
    ELSE Lookup(Lookup(Lookup(Lookup(timedArticleScores, dateNow, EmptyMap),
                              settings, EmptyMap), biases, EmptyMap),
                article, ArticleScore(article, settings, biases, dateNow))

\* lines 206-209 and 221-226: article with its score, keyed by score
\* descending, then date descending
Scored(article, scoreDetails) ==
    Keyed([article |-> article, total |-> scoreDetails.total],
          0 - scoreDetails.total, 0 - article.pubDate)

\* a re-score that drops no article
RescoreKeepingAll(articles, settings, biases, dateNow) == articles

scoreAndFilterArticles(articles, settings, biases, dateNow) ==
    MapSeq(SortKeyed(SelectSeq(MapSeq(articles,
                                      LAMBDA a : Scored(a, ScoreOf(a, settings, biases,
                                                                   dateNow))),
                               LAMBDA x : x.item.total >= settings.minimumScore)),
           LAMBDA x : x.item.article)

\* lines 342-347: the identifiers of the queued articles close to a recent
\* history title
DuplicateArticleIds(settings, pending, history) ==
    IF settings.useProactiveDuplicateCheck
    THEN findLocalSemanticDuplicates(pending,
                                     MapSeq(Take(history, HISTORY_TITLES_LIMIT),
                                            LAMBDA item : item.title))
    ELSE <<>>

\* a working set the flagged articles stay in
ArticlesUnfiltered(pending, duplicateArticleIds) == pending

\* lines 349-352: articlesToProcess
ArticlesToProcess(pending, duplicateArticleIds) ==
    SelectSeq(pending, LAMBDA a :
        NormalizedUrl(a.link) \notin
            {NormalizedUrl(duplicateArticleIds[i]) : i \in DOMAIN duplicateArticleIds})

\* a cycle that would keep of its working set only what it is about to post
PlanBatchOnly(articlesToProcess, articlesToPost) ==
    [kind |-> IF Len(articlesToPost) = 0 THEN "nobatch" ELSE "post",
     process |-> articlesToPost, batch |-> articlesToPost, flagged |-> {}]

\* lines 358-362: post articlesToPost, or save articlesToProcess and return
PlanBatch(articlesToProcess, articlesToPost) ==
    IF Len(articlesToPost) = 0
    THEN [kind |-> "nobatch", process |-> articlesToProcess, batch |-> <<>>,
          flagged |-> {}]
    ELSE [kind |-> "post", process |-> articlesToProcess, batch |-> articlesToPost,
          flagged |-> {}]

\* a cycle that would post its whole working set as it is queued
PlanProcessAll(articlesToProcess, settings, biases, dateNow) ==
    PlanBatch(articlesToProcess, articlesToProcess)

\* lines 355-362
PlanProcess(articlesToProcess, settings, biases, dateNow) ==
    PlanBatch(articlesToProcess,
              Take(scoreAndFilterArticles(articlesToProcess, settings, biases, dateNow),
                   settings.postLimit))

\* lines 343-345: plan with the queued articles findLocalSemanticDuplicates
\* named
WithFlagged(plan, pending, duplicateArticleIds) ==
    [plan EXCEPT !.flagged = {a \in Range(pending) : a.id \in Range(duplicateArticleIds)}]

\* lines 341-362 on a queue that is not empty
PlanFrom(pending, duplicateArticleIds, settings, biases, dateNow) ==
    WithFlagged(PlanProcess(ArticlesToProcess(pending, duplicateArticleIds),
                            settings, biases, dateNow),
                pending, duplicateArticleIds)

\* runPostingCycle up to its first submission: how it goes on ("abort":
\* token or destination missing; "empty": nothing queued; "nobatch": nothing
\* to post; "post": a batch to submit), its working set, its batch and the
\* articles it flagged as duplicates
PostingPlan(tok, settings, pending, history, biases, dateNow) ==
    IF ~tok \/ settings.targetSubreddit = ""
    THEN [kind |-> "abort", process |-> <<>>, batch |-> <<>>, flagged |-> {}]
    ELSE IF Len(pending) = 0
    THEN [kind |-> "empty", process |-> <<>>, batch |-> <<>>, flagged |-> {}]
    ELSE PlanFrom(pending, DuplicateArticleIds(settings, pending, history),
                  settings, biases, dateNow)

\* the PostedItem a submission of article leaves in successfulPosts
PostedItem(article, postedUrl, postedAt) ==
    [id |-> article.link, url |-> article.link, title |-> article.title,
     postedUrl |-> postedUrl, postedAt |-> postedAt]

\* a write-back that leaves the posted articles in the queue
QueueKeepingPosted(articlesToProcess, articlesPostedThisCycle) == articlesToProcess

\* lines 400-406: the queue a finished batch saves
QueueAfterBatch(articlesToProcess, articlesPostedThisCycle) ==
    LET postedLinks == NormalizedLinks(articlesPostedThisCycle)
    IN  SelectSeq(articlesToProcess, LAMBDA a : NormalizedUrl(a.link) \notin postedLinks)

\* lines 400-406: the history a finished batch saves
HistoryAfterBatch(successfulPosts, currentHistory) == successfulPosts \o currentHistory

\* checkInterval, postLimit and minimumScore as handleUpdateSettings keeps them
Sanitize(newSettings) ==
    [newSettings EXCEPT
        !.checkInterval = IF newSettings.checkInterval = 0 THEN 15
                          ELSE IF newSettings.checkInterval < 1 THEN 1
                          ELSE newSettings.checkInterval,
        !.postLimit = IF newSettings.postLimit = 0 THEN 2
                      ELSE IF newSettings.postLimit < 1 THEN 1
                      ELSE newSettings.postLimit]

(***************************************************************************)
(* State.                                                                  *)
(***************************************************************************)
VARIABLES
    token,                \* redditAuth?.token: TRUE iff a session token is held
    isAutomationRunning,
    isFetchingManually,
    automationSettings,
    postingHistory,       \* PostedItem[], newest first
    pendingArticles,      \* the Queue
    removedArticleUrls,   \* the RemovedLinkSet
    learnedBiases,        \* the BiasMap
    fetchTimer,           \* the setInterval of fetchIntervalRef is armed
    loops,                \* the postLoop closures alive, oldest first: each
                          \* awaits its post cycle or its timer
    fetches,              \* the fetch cycles awaiting the feed service, oldest first
    now                   \* Date.now()

vars == <<token, isAutomationRunning, isFetchingManually, automationSettings,
          postingHistory, pendingArticles, removedArticleUrls, learnedBiases,
          fetchTimer, loops, fetches, now>>

\* a postLoop waiting for its setTimeout; tracked iff intervalRef.current is
\* that timer; started is the time its last post cycle started, armedAt the
\* time of the setTimeout: both are now when the cycle awaited no submission
TimerLoop(tracked) ==
    [pc |-> "timer", tracked |-> tracked, process |-> <<>>, hist |-> <<>>, batch |-> <<>>,
     i |-> 0, posts |-> <<>>, posted |-> <<>>, meanwhile |-> {}, flagged |-> {},
     started |-> now, armedAt |-> now]

\* a postLoop awaiting the first submission of the post cycle it started;
\* meanwhile collects the articles fetch merges add while it is in flight
PostingLoop(plan, history) ==
    [pc |-> "posting", tracked |-> FALSE, process |-> plan.process, hist |-> history,
     batch |-> plan.batch, i |-> 1, posts |-> <<>>, posted |-> <<>>, meanwhile |-> {},
     flagged |-> plan.flagged, started |-> now, armedAt |-> now]

\* runFetchCycle at its await, with the state of the render its closure was
\* made in; meanwhile collects the articles that fetch cycles of the other
\* kind (manual, scheduled) add while it is in flight
FetchCycle(manual, pending, history, removed) ==
    [manual |-> manual, pending |-> pending, history |-> history, removed |-> removed,
     meanwhile |-> {}]

RemoveAt(s, k) == SubSeq(s, 1, k - 1) \o SubSeq(s, k + 1, Len(s))

PostCyclesInFlight == {k \in DOMAIN loops : loops[k].pc = "posting"}

\* intervalRef.current is overwritten: no timer armed before is tracked
Untrack(lps) ==
    [k \in DOMAIN lps |->
        IF lps[k].pc = "timer" THEN [lps[k] EXCEPT !.tracked = FALSE] ELSE lps[k]]

\* a postLoop that would end instead of arming its timer
EndLoop(lps, k) == RemoveAt(Untrack(lps), k)

\* the postLoop of slot k arms its timer:
\* intervalRef.current = window.setTimeout(postLoop, ...); after a post
\* cycle that awaited submissions this happens at the time the last one
\* was answered
ArmTimer(lps, k) ==
    [Untrack(lps) EXCEPT
        ![k] = IF lps[k].pc = "posting"
               THEN [TimerLoop(TRUE) EXCEPT !.started = lps[k].started, !.armedAt = now']
               ELSE TimerLoop(TRUE)]

\* a cleanup that would also abandon the post cycles in flight
CleanupAbortingCycles(lps) == SelectSeq(lps, LAMBDA l : l.pc = "timer" /\ ~l.tracked)

\* the cleanup of the automation effect: clearTimeout(intervalRef.current)
\* cancels the timer armed last, if it has not fired
Cleanup(lps) == SelectSeq(lps, LAMBDA l : ~(l.pc = "timer" /\ l.tracked))

\* a new postLoop after its postCycleRef.current() went the way of plan
NewLoop(lps, plan, history) ==
    IF plan.kind = "post" THEN Append(lps, PostingLoop(plan, history))
    ELSE Append(Untrack(lps), TimerLoop(TRUE))

\* the postLoop of slot k after its postCycleRef.current() went the way of plan
LoopAfterStart(lps, k, plan, history) ==
    IF plan.kind = "post" THEN [lps EXCEPT ![k] = PostingLoop(plan, history)]
    ELSE ArmTimer(lps, k)

\* bounds of the model: no post cycle starts once the session has added this
\* many history entries; so many postLoops and fetch cycles at once; so many
\* removals
MayStartPostCycle ==
    Len(SelectSeq(postingHistory, LAMBDA item : item.postedAt >= 0))
        < IF automationSettings.useProactiveDuplicateCheck THEN MaxHistory ELSE MaxReposts
Bounded(lps, fs) ==
    /\ Len(lps) <= MaxLoops
    /\ Len(fs) <= MaxFetches
    /\ Len(SelectSeq(lps, LAMBDA l : l.pc = "posting")) + Len(fs) <= MaxInFlight
MayRemove == Cardinality(removedArticleUrls) < MaxRemoved

(***************************************************************************)
(* Initial state: first run, nothing persisted but the user's keyword      *)
(* lists; no session, no destination.                                      *)
(***************************************************************************)
Init ==
    /\ token = FALSE
    /\ isAutomationRunning = FALSE
    /\ isFetchingManually = FALSE
    /\ automationSettings = [BaseSettings EXCEPT !.targetSubreddit = ""]
    /\ postingHistory = <<>>
    /\ pendingArticles = <<>>
    /\ removedArticleUrls = {}
    /\ learnedBiases = EmptyMap
    /\ fetchTimer = FALSE
    /\ loops = <<>>
    /\ fetches = <<>>
    /\ now = 0

(***************************************************************************)
(* Actions.                                                                *)
(***************************************************************************)
\* handleLogin, once the token arrived
Login ==
    /\ ~token
    /\ token' = TRUE
    /\ UNCHANGED <<isAutomationRunning, isFetchingManually, automationSettings,
                   postingHistory, pendingArticles, removedArticleUrls, learnedBiases,
                   fetchTimer, loops, fetches, now>>

\* handleLogout, and the effect cleanup when automation was running
Logout ==
    /\ token
    /\ token' = FALSE
    /\ isAutomationRunning' = FALSE
    /\ loops' = IF isAutomationRunning THEN Cleanup(loops) ELSE loops
    /\ fetchTimer' = FALSE
    /\ UNCHANGED <<isFetchingManually, automationSettings, postingHistory,
                   pendingArticles, removedArticleUrls, learnedBiases, fetches, now>>

\* handleToggleAutomation while running, and the effect cleanup
StopAutomation ==
    /\ token
    /\ isAutomationRunning
    /\ isAutomationRunning' = FALSE
    /\ loops' = Cleanup(loops)
    /\ fetchTimer' = FALSE
    /\ UNCHANGED <<token, isFetchingManually, automationSettings, postingHistory,
                   pendingArticles, removedArticleUrls, learnedBiases, fetches, now>>

\* as if handleToggleAutomation checked nothing before starting
AlwaysStartable(tok, settings) == TRUE

\* what handleToggleAutomation requires before it starts automation
CanStartAutomation(tok, settings) == tok /\ settings.targetSubreddit # ""

\* handleToggleAutomation while stopped (the button is disabled when nobody
\* is logged in), and the automation effect: without a token or a target
\* subreddit the handler alerts and returns; otherwise postLoop() runs a
\* post cycle up to its first await, fetchCycleRef.current() starts a fetch
\* on the state of the render, and the fetch interval is armed
StartAutomation ==
    /\ token
    /\ ~isAutomationRunning
    /\ IF ~CanStartAutomation(token, automationSettings)
       THEN UNCHANGED vars
       ELSE /\ MayStartPostCycle
            /\ \E plan \in {PostingPlan(token, automationSettings, pendingArticles,
                                         postingHistory, learnedBiases, now)} :
                   /\ loops' = NewLoop(loops, plan, postingHistory)
                   /\ pendingArticles' = IF plan.kind = "nobatch" THEN plan.process
                                         ELSE pendingArticles
            /\ isAutomationRunning' = TRUE
            /\ fetches' = Append(fetches, FetchCycle(FALSE, pendingArticles,
                                                     postingHistory, removedArticleUrls))
            /\ fetchTimer' = TRUE
            /\ Bounded(loops', fetches')
            /\ UNCHANGED <<token, isFetchingManually, automationSettings, postingHistory,
                           removedArticleUrls, learnedBiases, now>>

\* handleUpdateSettings when the automation effect does not run again
SaveSettings(newSettings) ==
    \E sanitizedSettings \in {Sanitize(newSettings)} :
        /\ ~(isAutomationRunning
             /\ sanitizedSettings.checkInterval # automationSettings.checkInterval)
        /\ pendingArticles' = scoreAndFilterArticles(pendingArticles, sanitizedSettings,
                                                     learnedBiases, now)
        /\ automationSettings' = sanitizedSettings
        /\ UNCHANGED <<token, isAutomationRunning, isFetchingManually, postingHistory,
                       removedArticleUrls, learnedBiases, fetchTimer, loops, fetches, now>>

\* the automation effect running again after its cleanup left the postLoops
\* cleaned, on the settings and the queue handleUpdateSettings saved
Restart(sanitizedSettings, cleanedPendingArticles, cleaned, plan) ==
    /\ automationSettings' = sanitizedSettings
    /\ IF plan.kind = "abort"
       THEN \* setIsAutomationRunning(false): the timer postLoop arms is
            \* cleared by the cleanup that follows
            /\ isAutomationRunning' = FALSE
            /\ loops' = Untrack(cleaned)
            /\ fetchTimer' = FALSE
            /\ pendingArticles' = cleanedPendingArticles
       ELSE /\ isAutomationRunning' = TRUE
            /\ loops' = NewLoop(cleaned, plan, postingHistory)
            /\ fetchTimer' = TRUE
            /\ pendingArticles' = IF plan.kind = "nobatch" THEN plan.process
                                  ELSE cleanedPendingArticles
    /\ fetches' = Append(fetches, FetchCycle(FALSE, cleanedPendingArticles,
                                             postingHistory, removedArticleUrls))
    /\ Bounded(loops', fetches')
    /\ UNCHANGED <<token, isFetchingManually, postingHistory, removedArticleUrls,
                   learnedBiases, now>>

\* handleUpdateSettings changing checkInterval while automation runs: the
\* effect is cleaned up and runs again on the new settings and queue
SaveSettingsRestart(newSettings) ==
    \E sanitizedSettings \in {Sanitize(newSettings)} :
        /\ isAutomationRunning
        /\ sanitizedSettings.checkInterval # automationSettings.checkInterval
        /\ MayStartPostCycle
        /\ \E cleanedPendingArticles \in
                   {scoreAndFilterArticles(pendingArticles, sanitizedSettings,
                                           learnedBiases, now)} :
               \E plan \in {PostingPlan(token, sanitizedSettings, cleanedPendingArticles,
                                        postingHistory, learnedBiases, now)} :
                   Restart(sanitizedSettings, cleanedPendingArticles, Cleanup(loops), plan)

\* handleManualFetch up to the await of runFetchCycle; the button is
\* disabled while isFetchingManually
ManualFetch ==
    /\ ~isFetchingManually
    /\ isFetchingManually' = TRUE
    /\ fetches' = Append(fetches, FetchCycle(TRUE, pendingArticles, postingHistory,
                                             removedArticleUrls))
    /\ Bounded(loops, fetches')
    /\ UNCHANGED <<token, isAutomationRunning, automationSettings, postingHistory,
                   pendingArticles, removedArticleUrls, learnedBiases, fetchTimer,
                   loops, now>>

\* the setInterval of the automation effect fires: fetchCycleRef.current()
FetchTimerFire ==
    /\ fetchTimer
    /\ fetches' = Append(fetches, FetchCycle(FALSE, pendingArticles, postingHistory,
                                             removedArticleUrls))
    /\ Bounded(loops, fetches')
    /\ UNCHANGED <<token, isAutomationRunning, isFetchingManually, automationSettings,
                   postingHistory, pendingArticles, removedArticleUrls, learnedBiases,
                   fetchTimer, loops, now>>

\* the articles of the queue q that the queue p does not hold
AddedTo(p, q) == Range(q) \ Range(p)

\* the feed service answers the fetch cycle of slot k with newArticles:
\* runFetchCycle from line 288 on, then the finally of handleManualFetch
FetchReturn(k, newArticles) ==
    \E merge \in {FetchMerge(fetches[k].pending, fetches[k].history, fetches[k].removed,
                             newArticles)} :
        \E added \in {IF merge.saved THEN AddedTo(pendingArticles, merge.pending) ELSE {}} :
            /\ pendingArticles' = IF merge.saved THEN merge.pending ELSE pendingArticles
            /\ isFetchingManually' = IF fetches[k].manual THEN FALSE ELSE isFetchingManually
            /\ fetches' = RemoveAt([j \in DOMAIN fetches |->
                                       IF fetches[j].manual # fetches[k].manual
                                       THEN [fetches[j] EXCEPT !.meanwhile = @ \cup added]
                                       ELSE fetches[j]], k)
            /\ loops' = [j \in DOMAIN loops |->
                            IF loops[j].pc = "posting"
                            THEN [loops[j] EXCEPT !.meanwhile = @ \cup added]
                            ELSE loops[j]]
            /\ UNCHANGED <<token, isAutomationRunning, automationSettings, postingHistory,
                           removedArticleUrls, learnedBiases, fetchTimer, now>>

\* the setTimeout of the postLoop of slot k fires: postCycleRef.current() on
\* the current state, up to its first await
PostTimerFire(k) ==
    /\ loops[k].pc = "timer"
    /\ MayStartPostCycle
    /\ \E plan \in {PostingPlan(token, automationSettings, pendingArticles,
                                 postingHistory, learnedBiases, now)} :
           IF plan.kind = "abort"
           THEN \* setIsAutomationRunning(false); postLoop arms its timer; if
                \* automation was running the effect cleanup then clears it
                /\ isAutomationRunning' = FALSE
                /\ loops' = IF isAutomationRunning THEN Cleanup(ArmTimer(loops, k))
                            ELSE ArmTimer(loops, k)
                /\ fetchTimer' = FALSE
                /\ UNCHANGED pendingArticles
           ELSE /\ loops' = LoopAfterStart(loops, k, plan, postingHistory)
                /\ pendingArticles' = IF plan.kind = "nobatch" THEN plan.process
                                      ELSE pendingArticles
                /\ UNCHANGED <<isAutomationRunning, fetchTimer>>
    /\ Bounded(loops', fetches)
    /\ UNCHANGED <<token, isFetchingManually, automationSettings, postingHistory,
                   removedArticleUrls, learnedBiases, fetches, now>>

\* successfulPosts after the submission of article ended as outcome at time t
PostsAfter(posts, article, outcome, t) ==
    IF outcome.kind = "ok" THEN Append(posts, PostedItem(article, outcome.url, t))
    ELSE IF outcome.kind = "already" THEN Append(posts, PostedItem(article, "Duplicate", t))
    ELSE posts

\* articlesPostedThisCycle if every article submitted were pushed to it
PostedAfterAny(posted, article, outcome) == Append(posted, article)

\* articlesPostedThisCycle after the submission of article ended as outcome
PostedAfter(posted, article, outcome) ==
    IF outcome.kind \in {"ok", "already"} THEN Append(posted, article) ELSE posted

\* the publishing client answers, after elapsed minutes, the submission the
\* post cycle of slot k awaits: lines 378-397, then the next submission, or
\* lines 400-406 and the rest of postLoop
SubmitReturn(k, outcome, elapsed) ==
    LET c == loops[k]
        article == c.batch[c.i]
        t == IF now + elapsed > MaxNow THEN MaxNow ELSE now + elapsed
        successfulPosts == PostsAfter(c.posts, article, outcome, t)
        articlesPostedThisCycle == PostedAfter(c.posted, article, outcome)
        wrote == Len(articlesPostedThisCycle) > 0
    IN  /\ c.pc = "posting"
        /\ now' = t
        /\ IF c.i < Len(c.batch)
           THEN /\ loops' = [loops EXCEPT ![k] = [c EXCEPT !.i = c.i + 1,
                                                          !.posts = successfulPosts,
                                                          !.posted = articlesPostedThisCycle]]
                /\ UNCHANGED <<pendingArticles, postingHistory>>
           ELSE /\ loops' = ArmTimer(loops, k)
                /\ pendingArticles' =
                       IF wrote THEN QueueAfterBatch(c.process, articlesPostedThisCycle)
                       ELSE pendingArticles
                /\ postingHistory' =
                       IF wrote THEN HistoryAfterBatch(successfulPosts, c.hist)
                       ELSE postingHistory
        /\ UNCHANGED <<token, isAutomationRunning, isFetchingManually, automationSettings,
                       removedArticleUrls, learnedBiases, fetchTimer, fetches>>

\* handleRemoveArticleFromQueue for the identifier of a queued article
RemoveArticle(articleId) ==
    LET articleToRemove ==
            pendingArticles[CHOOSE i \in DOMAIN pendingArticles :
                                /\ pendingArticles[i].id = articleId
                                /\ \A j \in 1..(i - 1) : pendingArticles[j].id # articleId]
    IN  /\ MayRemove
        /\ \E i \in DOMAIN pendingArticles : pendingArticles[i].id = articleId
        /\ pendingArticles' = SelectSeq(pendingArticles, LAMBDA a : a.id # articleId)
        /\ removedArticleUrls' = removedArticleUrls \cup {NormalizedUrl(articleToRemove.link)}
        /\ learnedBiases' =
               IF automationSettings.useAdaptiveLearning
               THEN DecrementAll(learnedBiases, extractSignificantKeywords(articleToRemove.title))
               ELSE learnedBiases
        /\ UNCHANGED <<token, isAutomationRunning, isFetchingManually, automationSettings,
                       postingHistory, fetchTimer, loops, fetches, now>>

\* handleResetLearnedData: setLearnedBiases(new Map())
ResetLearnedData ==
    /\ learnedBiases' = EmptyMap
    /\ UNCHANGED <<token, isAutomationRunning, isFetchingManually, automationSettings,
                   postingHistory, pendingArticles, removedArticleUrls, fetchTimer,
                   loops, fetches, now>>

\* the identifiers the remove button of a queued article can pass
ArticleIds == {a.id : a \in UNION {Range(b) : b \in FeedBatches}}

Next ==
    \/ Login
    \/ Logout
    \/ StopAutomation
    \/ StartAutomation
    \/ \E s \in SettingsInputs : SaveSettings(s)
    \/ \E s \in SettingsInputs : SaveSettingsRestart(s)
    \/ ManualFetch
    \/ FetchTimerFire
    \/ \E k \in DOMAIN fetches, b \in FeedBatches : FetchReturn(k, b)
    \/ \E k \in DOMAIN loops : PostTimerFire(k)
    \/ \E k \in DOMAIN loops, o \in SubmitOutcomes, d \in 0..MaxElapsed : SubmitReturn(k, o, d)
    \/ \E id \in ArticleIds : RemoveArticle(id)

Spec == Init /\ [][Next]_vars

(***************************************************************************)
(* Properties.                                                             *)
(***************************************************************************)
\* the postLoop of slot k ends its post cycle in this step (lines 400-406,
\* then the setTimeout of postLoop)
CompletesPostCycle(k) ==
    /\ Len(loops') = Len(loops)
    /\ loops[k].pc = "posting"
    /\ loops'[k].pc = "timer"

\* C1: at most one Post Cycle is in flight (awaiting a submission) at any
\* time, whatever the starts, stops, restarts and interval changes
AtMostOnePostCycleInFlight == Cardinality(PostCyclesInFlight) <= 1

\* C2: at most one Fetch Cycle is in flight at any time, the fetch on
\* activation, the scheduled fetches and the manual fetches counted together
AtMostOneFetchCycleInFlight == Len(fetches) <= 1

\* C3: while automation is stopped no timer of the scheduler puts a Post
\* Cycle in flight and none starts a Fetch Cycle
NoCycleStartedWhileStopped ==
    [][~isAutomationRunning =>
          /\ \A k \in DOMAIN loops :
                ~(Len(loops') = Len(loops) /\ loops[k].pc = "timer"
                    /\ loops'[k].pc = "posting")
          /\ ~FetchTimerFire]_vars

\* C4: no two Queue entries have the same normalized link
QueueLinksDistinct ==
    \A i, j \in DOMAIN pendingArticles :
        i # j => normalizeUrl(pendingArticles[i].link) # normalizeUrl(pendingArticles[j].link)

\* the two articles whose links differ only in a tracking parameter were
\* fetched together and the Queue holds exactly one of them
OneEntryForTrackedLink ==
    /\ Len(SelectSeq(pendingArticles,
                     LAMBDA a : normalizeUrl(a.link) = normalizeUrl(LinkGtaTracked))) = 1
    /\ ArtGta \in Range(pendingArticles)

\* C6: no Queue entry has a normalized link that is in the RemovedLinkSet
NoRemovedLinkInQueue == NormalizedLinks(pendingArticles) \cap removedArticleUrls = {}

\* C7: no Queue entry has a normalized link that is in the PostingHistory
NoPostedLinkInQueue ==
    NormalizedLinks(pendingArticles) \cap HistoryLinks(postingHistory) = {}

\* C8: an article a fetch merge added to the Queue while a Post Cycle was in
\* flight, and that is still queued when that Post Cycle ends, stays in
\* the Queue unless it was in the batch of that Post Cycle
FetchedArticleSurvivesWriteBack ==
    [][\A k \in DOMAIN loops :
          CompletesPostCycle(k) =>
              \A a \in loops[k].meanwhile \cap Range(pendingArticles) :
                  a \notin Range(loops[k].batch) => a \in Range(pendingArticles')]_vars

\* C9: when a Fetch Cycle ends, every article that an overlapping Fetch Cycle
\* of the other kind (manual, scheduled) added to the Queue and that is still
\* queued stays in the Queue, the capacity cap permitting
OverlappingMergesBothKept ==
    [][\A k \in DOMAIN fetches :
          (\E b \in FeedBatches : FetchReturn(k, b)) =>
              \/ Len(pendingArticles') >= MAX_PENDING_ARTICLES
              \/ fetches[k].meanwhile \cap Range(pendingArticles)
                     \subseteq Range(pendingArticles')]_vars

\* the submissions of the post cycle of slot k that succeeded, the one that
\* ends as outcome included: the link submitted and the location returned
Succeeded(k, outcome) ==
    {[link |-> p.url, postedUrl |-> p.postedUrl] :
        p \in {q \in Range(loops[k].posts) : q.postedUrl \in PostedUrls}}
    \cup (IF outcome.kind = "ok"
          THEN {[link |-> loops[k].batch[loops[k].i].link, postedUrl |-> outcome.url]}
          ELSE {})

InitCap ==
    /\ token = FALSE
    /\ isAutomationRunning = FALSE
    /\ isFetchingManually = FALSE
    /\ automationSettings = [BaseSettings EXCEPT !.targetSubreddit = ""]
    /\ postingHistory = <<>>
    /\ pendingArticles = AlmostFullQueue
    /\ removedArticleUrls = {}
    /\ learnedBiases = EmptyMap
    /\ fetchTimer = FALSE
    /\ loops = <<>>
    /\ fetches = <<>>
    /\ now = 0

\* the steps of the program with at most MaxLoopsCap posting loops and
\* MaxFetchesCap fetch cycles alive at a time
WithinCap == Len(loops) <= MaxLoopsCap /\ Len(fetches) <= MaxFetchesCap

NextCap ==
    \/ Login /\ WithinCap'
    \/ Logout /\ WithinCap'
    \/ StopAutomation /\ WithinCap'
    \/ StartAutomation /\ WithinCap'
    \/ \E s \in SettingsInputs : SaveSettings(s) /\ WithinCap'
    \/ \E s \in SettingsInputs : SaveSettingsRestart(s) /\ WithinCap'
    \/ ManualFetch /\ WithinCap'
    \/ FetchTimerFire /\ WithinCap'
    \/ \E k \in DOMAIN fetches, b \in FeedBatches : FetchReturn(k, b) /\ WithinCap'
    \/ \E k \in DOMAIN loops : PostTimerFire(k) /\ WithinCap'
    \/ \E k \in DOMAIN loops, o \in SubmitOutcomes, d \in 0..MaxElapsed :
           SubmitReturn(k, o, d) /\ WithinCap'
    \/ \E id \in ArticleIds : RemoveArticle(id) /\ WithinCap'

SpecCap == InitCap /\ [][NextCap]_vars

\* C5: the Queue holds at most 50 articles
QueueWithinCapacity == Len(pendingArticles) <= MAX_PENDING_ARTICLES

\* the Queue is full and holds an article a fetch merge added
FullQueueAfterMerge ==
    /\ Len(pendingArticles) = MAX_PENDING_ARTICLES
    /\ ArtMod \in Range(pendingArticles)
    /\ ArtGta \in Range(pendingArticles)

(***************************************************************************)
(* Submission outcomes.                                                    *)
(***************************************************************************)
\* the post cycle of slot k starts a submission in this step: its first one
\* when its timer fires or automation starts, its next one when the
\* publishing client answered
StartsSubmission(k) ==
    /\ k \in DOMAIN loops'
    /\ loops'[k].pc = "posting"
    /\ Len(fetches') >= Len(fetches)
    /\ \/ /\ k \in DOMAIN loops
          /\ \/ PostTimerFire(k)
             \/ \E o \in SubmitOutcomes, d \in 0..MaxElapsed :
                    SubmitReturn(k, o, d)
       \/ /\ k = Len(loops')
          /\ \/ StartAutomation
             \/ \E s \in SettingsInputs : SaveSettingsRestart(s)

\* the articles the post cycle of slot k, ending with outcome, had refused
\* as already submitted
RefusedAsSubmitted(k, outcome) ==
    {loops[k].batch[j] : j \in {n \in 1..(loops[k].i - 1) :
        \E p \in Range(loops[k].posts) :
            p.url = loops[k].batch[n].link /\ p.postedUrl = "Duplicate"}}
    \cup (IF outcome.kind = "already" THEN {loops[k].batch[loops[k].i]} ELSE {})

\* the normalized links PostingHistory marks as already submitted
MarkedDuplicate(history) ==
    {NormalizedUrl(history[h].url) :
        h \in {n \in DOMAIN history : history[n].postedUrl = "Duplicate"}}

\* C11: an article whose submission is refused as already submitted has,
\* when its Post Cycle ends, a PostingHistory entry with the publish location
\* 'Duplicate' and is out of the Queue; and no Post Cycle starts a
\* submission of an article PostingHistory marks that way
AlreadySubmittedIsTerminal ==
    [][/\ \A k \in DOMAIN loops, o \in SubmitOutcomes, d \in 0..MaxElapsed :
              (SubmitReturn(k, o, d) /\ CompletesPostCycle(k)) =>
                  \A a \in RefusedAsSubmitted(k, o) :
                      /\ \E h \in DOMAIN postingHistory' :
                            /\ postingHistory'[h].url = a.link
                            /\ postingHistory'[h].postedUrl = "Duplicate"
                      /\ a \notin Range(pendingArticles')
       /\ \A k \in DOMAIN loops' :
             StartsSubmission(k) =>
                 NormalizedUrl(loops'[k].batch[loops'[k].i].link)
                     \notin MarkedDuplicate(postingHistory)]_vars

\* the articles whose submission by the post cycle of slot k, ending with
\* outcome, failed with another error than the already-submitted one
FailedOtherwise(k, outcome) ==
    {loops[k].batch[j] : j \in {n \in 1..(loops[k].i - 1) :
        \A p \in Range(loops[k].posts) : p.url # loops[k].batch[n].link}}
    \cup (IF outcome.kind = "error" THEN {loops[k].batch[loops[k].i]} ELSE {})

\* C12: an article whose submission failed with an error other than the
\* already-submitted one gets no PostingHistory entry from its Post Cycle,
\* and the end of that cycle leaves it in the Queue: it is in the Queue the
\* cycle writes back, and a cycle that writes nothing back leaves the Queue
\* as it is, whatever happened to the other articles of the batch
FailedSubmissionStaysQueued ==
    [][\A k \in DOMAIN loops, o \in SubmitOutcomes, d \in 0..MaxElapsed :
          (SubmitReturn(k, o, d) /\ CompletesPostCycle(k)) =>
              \A a \in FailedOtherwise(k, o) :
                  /\ \A h \in Range(postingHistory') :
                        h.url = a.link => h \in Range(postingHistory)
                  /\ (a \in Range(pendingArticles) \/ postingHistory' # postingHistory)
                        => a \in Range(pendingArticles')]_vars

\* a Post Cycle is about to end in which the first article of a batch of
\* two failed with such an error: it is queued and has no history entry
FailedArticleStillQueued ==
    \E k \in PostCyclesInFlight :
        /\ loops[k].i = 2
        /\ Len(loops[k].batch) = 2
        /\ \A p \in Range(loops[k].posts) : p.url # loops[k].batch[1].link
        /\ loops[k].batch[1] \in Range(pendingArticles)
        /\ \A h \in Range(postingHistory) : h.url # loops[k].batch[1].link

\* the submissions the publishing client has not answered yet: every post
\* cycle in flight awaits one
SubmissionsInFlight == Len(SelectSeq(loops, LAMBDA l : l.pc = "posting"))

\* C16: at most one submission to the publishing client is in flight at any
\* time, and a Post Cycle submits its batch in batch order, the next article
\* only when the outcome of the one before is known
OneSubmissionAtATime ==
    [][/\ SubmissionsInFlight' <= 1
       /\ \A k \in DOMAIN loops, o \in SubmitOutcomes, d \in 0..MaxElapsed :
             (SubmitReturn(k, o, d) /\ loops'[k].pc = "posting") =>
                 /\ loops'[k].batch = loops[k].batch
                 /\ loops'[k].i = loops[k].i + 1]_vars

(***************************************************************************)
(* Preconditions of posting and of automation.                             *)
(***************************************************************************)
\* the timer of slot k fires and the post cycle it starts finds no session
\* token or no target destination
AbortsPostCycle(k) ==
    /\ PostTimerFire(k)
    /\ PostingPlan(token, automationSettings, pendingArticles, postingHistory,
                   learnedBiases, now).kind = "abort"

\* C17: a Post Cycle that starts without a session token or with an empty
\* target destination makes no submission, leaves Queue and PostingHistory
\* unchanged and stops automation: no post timer and no fetch timer is left
\* armed, so no later cycle starts until the user starts automation again
AbortedCycleStopsAutomation ==
    [][\A k \in DOMAIN loops :
          AbortsPostCycle(k) =>
              /\ SubmissionsInFlight' = SubmissionsInFlight
              /\ pendingArticles' = pendingArticles
              /\ postingHistory' = postingHistory
              /\ ~isAutomationRunning'
              /\ ~fetchTimer'
              /\ \A j \in DOMAIN loops' : loops'[j].pc # "timer"]_vars

\* C18: starting automation without a session token or with an empty
\* target destination is a no-op: automation stays stopped, no timer is
\* armed, no cycle starts, and Queue, PostingHistory, RemovedLinkSet and
\* BiasMap are unchanged
RefusedStartIsNoOp ==
    [][(StartAutomation /\ (~token \/ automationSettings.targetSubreddit = "")) =>
          /\ ~isAutomationRunning'
          /\ loops' = loops
          /\ fetches' = fetches
          /\ fetchTimer' = fetchTimer
          /\ UNCHANGED <<pendingArticles, postingHistory, removedArticleUrls,
                         learnedBiases>>]_vars

\* somebody is logged in, no target subreddit is set and articles are
\* queued: the start button is enabled and pressing it is refused
StartWouldBeRefused ==
    /\ token
    /\ ~isAutomationRunning
    /\ ~CanStartAutomation(token, automationSettings)
    /\ pendingArticles # <<>>

(***************************************************************************)
(* Stopping while a post cycle is in flight.                               *)
(***************************************************************************)
\* what a post cycle in flight works on and has recorded so far
CycleProgress(l) ==
    [process |-> l.process, hist |-> l.hist, batch |-> l.batch, i |-> l.i,
     posts |-> l.posts, posted |-> l.posted]

\* the number of post cycles in flight among lps that are as far as progress
CyclesAt(lps, progress) ==
    Cardinality({j \in DOMAIN lps :
                    lps[j].pc = "posting" /\ CycleProgress(lps[j]) = progress})

\* the publishing client answers the submission the post cycle of slot k
\* awaits: every other cycle in flight stays as it is, and the cycle goes on
\* with its next article, the outcome recorded, or, after its last article,
\* ends with a history entry for every article that succeeded or was
\* refused as already submitted, none of them left in the queue
AnsweredCycleGoesOn(k, outcome, elapsed) ==
    /\ \A j \in PostCyclesInFlight \ {k} : loops'[j] = loops[j]
    /\ IF loops[k].i < Len(loops[k].batch)
       THEN /\ loops'[k].pc = "posting"
            /\ loops'[k].batch = loops[k].batch
            /\ loops'[k].i = loops[k].i + 1
            /\ loops'[k].posts = PostsAfter(loops[k].posts, loops[k].batch[loops[k].i],
                                            outcome, now')
       ELSE \A p \in Range(PostsAfter(loops[k].posts, loops[k].batch[loops[k].i],
                                      outcome, now')) :
                /\ p \in Range(postingHistory')
                /\ \A a \in Range(pendingArticles') : a.link # p.url

\* C19: a Post Cycle in flight is not aborted, whether automation is
\* stopped or not: only the answer to its submission moves it on, it
\* attempts its batch to the last article and records every outcome
InFlightCycleRunsToItsEnd ==
    [][IF \E k \in DOMAIN loops, o \in SubmitOutcomes, d \in 0..MaxElapsed :
              SubmitReturn(k, o, d)
       THEN \A k \in DOMAIN loops, o \in SubmitOutcomes, d \in 0..MaxElapsed :
                SubmitReturn(k, o, d) => AnsweredCycleGoesOn(k, o, d)
       ELSE \A k \in PostCyclesInFlight :
                CyclesAt(loops', CycleProgress(loops[k]))
                    >= CyclesAt(loops, CycleProgress(loops[k]))]_vars

\* automation is stopped and a Post Cycle in flight has recorded the outcome
\* of its first article and awaits the submission of its second
StoppedWithCycleInFlight ==
    /\ ~isAutomationRunning
    /\ \E k \in PostCyclesInFlight : loops[k].i = 2 /\ Len(loops[k].posts) = 1

(***************************************************************************)
(* The program started on the history of an earlier session, with feeds    *)
(* that retell a posted story and carry articles below the minimum score.  *)
(***************************************************************************)
\* the history an earlier session left: "GTA Release Date" posted an hour
\* before the start
PersistedHistory == <<PostedItem(ArtGtaEarlier, "https://redd.it/0", 0 - 60)>>

\* what one retrieval of these feeds can return
RetoldFeedBatches ==
    {<<>>, <<ArtGta, ArtDeal, ArtSale>>, <<ArtMod, OldStory(1), OldStory(2)>>}

\* the identifier the remove button passes here: the user removes, if any,
\* the first "Old Story", and the other one loses score with it
RetoldArticleIds == {OldStory(1).id}

InitHist ==
    /\ token = FALSE
    /\ isAutomationRunning = FALSE
    /\ isFetchingManually = FALSE
    /\ automationSettings = [BaseSettings EXCEPT !.targetSubreddit = ""]
    /\ postingHistory = PersistedHistory
    /\ pendingArticles = <<>>
    /\ removedArticleUrls = {}
    /\ learnedBiases = EmptyMap
    /\ fetchTimer = FALSE
    /\ loops = <<>>
    /\ fetches = <<>>
    /\ now = 0

NextHist ==
    \/ Login /\ WithinCap'
    \/ Logout /\ WithinCap'
    \/ StopAutomation /\ WithinCap'
    \/ StartAutomation /\ WithinCap'
    \/ \E s \in SettingsInputs : SaveSettings(s) /\ WithinCap'
    \/ \E s \in SettingsInputs : SaveSettingsRestart(s) /\ WithinCap'
    \/ ManualFetch /\ WithinCap'
    \/ FetchTimerFire /\ WithinCap'
    \/ \E k \in DOMAIN fetches, b \in RetoldFeedBatches : FetchReturn(k, b) /\ WithinCap'
    \/ \E k \in DOMAIN loops : PostTimerFire(k) /\ WithinCap'
    \/ \E k \in DOMAIN loops, o \in SubmitOutcomes, d \in 0..MaxElapsed :
           SubmitReturn(k, o, d) /\ WithinCap'
    \/ \E id \in RetoldArticleIds : RemoveArticle(id) /\ WithinCap'

SpecHist == InitHist /\ [][NextHist]_vars

\* a post cycle starts in this step, on the state of this render, and ends
\* at once because nothing of its working set is to be posted
EndsWithoutBatch ==
    /\ pendingArticles # <<>>
    /\ SubmissionsInFlight' = SubmissionsInFlight
    /\ \/ \E k \in DOMAIN loops : PostTimerFire(k)
       \/ StartAutomation
    /\ PostingPlan(token, automationSettings, pendingArticles, postingHistory,
                   learnedBiases, now).kind = "nobatch"

\* the articles the post cycle starting in this step flags as duplicates
FlaggedNow ==
    PostingPlan(token, automationSettings, pendingArticles, postingHistory,
                learnedBiases, now).flagged

\* the post cycle of slot k ends in this step and saves a queue: a
\* submission of its batch succeeded or was refused as already submitted
EndsWithWriteBack(k) ==
    /\ CompletesPostCycle(k)
    /\ \E o \in SubmitOutcomes, d \in 0..MaxElapsed :
           /\ SubmitReturn(k, o, d)
           /\ PostsAfter(loops[k].posts, loops[k].batch[loops[k].i], o, now') # <<>>

\* the post cycle of slot k ends in this step and saves nothing: every
\* submission of its batch failed otherwise
EndsWithoutWriteBack(k) ==
    /\ CompletesPostCycle(k)
    /\ \E o \in SubmitOutcomes, d \in 0..MaxElapsed :
           /\ SubmitReturn(k, o, d)
           /\ PostsAfter(loops[k].posts, loops[k].batch[loops[k].i], o, now') = <<>>

\* C13 as stated: when a Post Cycle ends, every article it flagged as a
\* semantic duplicate is still in the Queue
FlaggedStayQueued ==
    [][/\ EndsWithoutBatch => FlaggedNow \subseteq Range(pendingArticles')
       /\ \A k \in DOMAIN loops :
             (EndsWithWriteBack(k) \/ EndsWithoutWriteBack(k)) =>
                 (loops[k].flagged \cap Range(pendingArticles))
                     \subseteq Range(pendingArticles')]_vars

\* C13: the articles a Post Cycle flags as semantic duplicates are never in
\* its batch, and they are not in the Queue the cycle saves when it ends
\* with an empty batch or after a submission succeeded or was refused as
\* already submitted; a cycle whose submissions all failed otherwise saves
\* nothing and leaves the Queue, the flagged articles included, as it is
FlaggedLeaveSavedQueue ==
    [][/\ EndsWithoutBatch => FlaggedNow \cap Range(pendingArticles') = {}
       /\ \A k \in DOMAIN loops' :
             StartsSubmission(k) => loops'[k].flagged \cap Range(loops'[k].batch) = {}
       /\ \A k \in DOMAIN loops :
             /\ EndsWithWriteBack(k) =>
                    loops[k].flagged \cap Range(pendingArticles') = {}
             /\ EndsWithoutWriteBack(k) => pendingArticles' = pendingArticles]_vars

\* a Post Cycle that flagged a queued article has recorded a submission and
\* awaits the last one: it will save a queue
FlaggedAboutToLeave ==
    \E k \in PostCyclesInFlight :
        /\ loops[k].flagged # {}
        /\ loops[k].flagged \subseteq Range(pendingArticles)
        /\ loops[k].i = Len(loops[k].batch)
        /\ loops[k].posts # <<>>

\* C14: when the post batch of a Post Cycle is empty, every queued article
\* the cycle did not flag as a semantic duplicate, those below the minimum
\* score included, is in the Queue afterwards in the same relative order,
\* and PostingHistory is unchanged
EmptyBatchKeepsUnflagged ==
    [][EndsWithoutBatch =>
          /\ SelectSeq(pendingArticles', LAMBDA a : a \notin FlaggedNow)
                 = SelectSeq(pendingArticles, LAMBDA a : a \notin FlaggedNow)
          /\ postingHistory' = postingHistory]_vars

\* a Post Cycle with an empty batch has taken the retold "GTA Release Date"
\* out of the Queue: the two articles below the minimum score that the feed
\* brought with it are queued in their order, and nothing was posted
EmptyBatchLeftUnflagged ==
    /\ ArtGta \notin Range(pendingArticles)
    /\ SelectSeq(pendingArticles, LAMBDA a : a \in {ArtDeal, ArtSale}) = <<ArtDeal, ArtSale>>
    /\ postingHistory = PersistedHistory

(***************************************************************************)
(* The post batch.                                                         *)
(***************************************************************************)
\* the total the scoring engine gives article once this step is taken
TotalThen(article) ==
    ScoreOf(article, automationSettings', learnedBiases', now').total

\* x is before y in the order of the batch: higher total, or the same
\* total and not older
RanksBefore(x, totalX, y, totalY) ==
    totalX > totalY \/ (totalX = totalY /\ x.pubDate >= y.pubDate)

\* batch is what the claim says of the working set: at most postLimit
\* articles of it, each with at least the minimum score, in the order of
\* total and date, and an article with the minimum score is left out only
\* of a full batch and ranks after every article in it
IsPostBatchOf(batch, workingSet, settings) ==
    /\ Len(batch) <= settings.postLimit
    /\ \A j \in DOMAIN batch :
          /\ batch[j] \in Range(workingSet)
          /\ TotalThen(batch[j]) >= settings.minimumScore
          /\ \A n \in DOMAIN batch :
                j < n => RanksBefore(batch[j], TotalThen(batch[j]),
                                     batch[n], TotalThen(batch[n]))
    /\ \A a \in Range(workingSet) \ Range(batch) :
          TotalThen(a) >= settings.minimumScore =>
              /\ Len(batch) = settings.postLimit
              /\ \A j \in DOMAIN batch :
                    RanksBefore(batch[j], TotalThen(batch[j]), a, TotalThen(a))

\* C15: the post batch of a Post Cycle is the first postLimit articles of
\* the working set after discarding those with total < minimumScore and
\* sorting by total descending, ties by publication timestamp descending
BatchIsBestOfWorkingSet ==
    [][\A k \in DOMAIN loops' :
          (StartsSubmission(k) /\ loops'[k].i = 1) =>
              IsPostBatchOf(loops'[k].batch, loops'[k].process, automationSettings')]_vars

\* a Post Cycle in flight has a full batch, and its working set holds an
\* article with the minimum score that is left out and one below the
\* minimum score
BatchLeavesArticlesOut ==
    \E k \in PostCyclesInFlight :
        /\ Len(loops[k].batch) = automationSettings.postLimit
        /\ \E a \in Range(loops[k].process) \ Range(loops[k].batch) :
              ScoreOf(a, automationSettings, learnedBiases, now).total
                  >= automationSettings.minimumScore
        /\ \E a \in Range(loops[k].process) :
              ScoreOf(a, automationSettings, learnedBiases, now).total
                  < automationSettings.minimumScore

(***************************************************************************)
(* The post loop goes on: the program started on a queue an earlier        *)
(* session left, and every timer it arms fires in the end.                 *)
(***************************************************************************)
\* the queue an earlier session left: one "Old Story"
PersistedQueue == <<OldStory(1)>>

\* what one retrieval of the feeds can return here
LiveFeedBatches == {<<>>, <<ArtMod>>}

InitLive ==
    /\ token = FALSE
    /\ isAutomationRunning = FALSE
    /\ isFetchingManually = FALSE
    /\ automationSettings = [BaseSettings EXCEPT !.targetSubreddit = ""]
    /\ postingHistory = <<>>
    /\ pendingArticles = PersistedQueue
    /\ removedArticleUrls = {}
    /\ learnedBiases = EmptyMap
    /\ fetchTimer = FALSE
    /\ loops = <<>>
    /\ fetches = <<>>
    /\ now = 0

NextLive ==
    \/ Login /\ WithinCap'
    \/ Logout /\ WithinCap'
    \/ StopAutomation /\ WithinCap'
    \/ StartAutomation /\ WithinCap'
    \/ \E s \in SettingsInputs : SaveSettings(s) /\ WithinCap'
    \/ \E s \in SettingsInputs : SaveSettingsRestart(s) /\ WithinCap'
    \/ ManualFetch /\ WithinCap'
    \/ FetchTimerFire /\ WithinCap'
    \/ \E k \in DOMAIN fetches, b \in LiveFeedBatches : FetchReturn(k, b) /\ WithinCap'
    \/ \E k \in DOMAIN loops : PostTimerFire(k) /\ WithinCap'
    \/ \E k \in DOMAIN loops, o \in SubmitOutcomes, d \in 0..MaxElapsed :
           SubmitReturn(k, o, d) /\ WithinCap'
    \/ \E id \in RetoldArticleIds : RemoveArticle(id) /\ WithinCap'

\* window.setTimeout(postLoop, ...): a timer that stays armed fires
TimersFire == WF_vars(\E k \in DOMAIN loops : PostTimerFire(k) /\ WithinCap')

SpecLive == InitLive /\ [][NextLive]_vars /\ TimersFire

\* a Post Cycle starting now would submit a batch
WouldPost ==
    /\ MayStartPostCycle
    /\ PostingPlan(token, automationSettings, pendingArticles, postingHistory,
                   learnedBiases, now).kind = "post"

\* C20: no outcome of a submission ends the post loop: when the last
\* submission of a Post Cycle is answered its postLoop arms its timer; and
\* while automation runs with a token and a destination and there is
\* something to post, another Post Cycle starts in the end
PostLoopGoesOn ==
    /\ [][\A k \in DOMAIN loops, o \in SubmitOutcomes, d \in 0..MaxElapsed :
             (SubmitReturn(k, o, d) /\ loops[k].i = Len(loops[k].batch)) =>
                 /\ k \in DOMAIN loops'
                 /\ loops'[k].pc = "timer"]_vars
    /\ (isAutomationRunning /\ WouldPost /\ PostCyclesInFlight = {})
           ~> (PostCyclesInFlight # {} \/ ~isAutomationRunning \/ ~WouldPost)

\* automation runs, nothing was removed, and the Post Cycle that started
\* with it has ended without a post, every submission failed: its timer is
\* armed and the articles are there to be submitted again
WaitsAfterFailedCycle ==
    /\ isAutomationRunning
    /\ removedArticleUrls = {}
    /\ PostCyclesInFlight = {}
    /\ \E k \in DOMAIN loops : loops[k].pc = "timer"
    /\ WouldPost

(***************************************************************************)
(* PostingHistory.                                                         *)
(***************************************************************************)
\* C24: PostingHistory is append-only: every step leaves the entries it
\* held, unchanged and in their order, behind the entries it adds at the
\* head, also when Post Cycles overlap; and every entry added carries the
\* location of a post that succeeded or the mark of one already submitted
HistoryIsAppendOnly ==
    [][\E n \in 0..Len(postingHistory') :
          /\ SubSeq(postingHistory', n + 1, Len(postingHistory')) = postingHistory
          /\ \A j \in 1..n :
                postingHistory'[j].postedUrl \in PostedUrls \cup {"Duplicate"}]_vars

(***************************************************************************)
(* Scenario: the feeds bring a newer article that scores lower than an      *)
(* older one, the settings page raises the minimum score, and an earlier    *)
(* session may have left learned biases.                                    *)
(***************************************************************************)
TunedFeedBatches == {<<>>, <<ArtPatch, ArtGta>>, <<ArtMod, ArtController>>}

\* the queued articles whose remove button the scenario presses
TunedArticleIds == {ArtController.id}

InitTuned ==
    /\ token = FALSE
    /\ isAutomationRunning = FALSE
    /\ isFetchingManually = FALSE
    /\ automationSettings = [BaseSettings EXCEPT !.targetSubreddit = ""]
    /\ postingHistory = <<>>
    /\ pendingArticles = <<>>
    /\ removedArticleUrls = {}
    /\ learnedBiases \in {EmptyMap, PersistedBiases}
    /\ fetchTimer = FALSE
    /\ loops = <<>>
    /\ fetches = <<>>
    /\ now = 0

NextTuned ==
    \/ Login /\ WithinCap'
    \/ Logout /\ WithinCap'
    \/ StopAutomation /\ WithinCap'
    \/ StartAutomation /\ WithinCap'
    \/ \E s \in TunedSettingsInputs : SaveSettings(s) /\ WithinCap'
    \/ \E s \in TunedSettingsInputs : SaveSettingsRestart(s) /\ WithinCap'
    \/ ManualFetch /\ WithinCap'
    \/ FetchTimerFire /\ WithinCap'
    \/ \E k \in DOMAIN fetches, b \in TunedFeedBatches : FetchReturn(k, b) /\ WithinCap'
    \/ \E k \in DOMAIN loops : PostTimerFire(k) /\ WithinCap'
    \/ \E k \in DOMAIN loops, o \in SubmitOutcomes, d \in 0..MaxElapsed :
           SubmitReturn(k, o, d) /\ WithinCap'
    \/ \E id \in TunedArticleIds : RemoveArticle(id) /\ WithinCap'
    \/ ResetLearnedData /\ WithinCap'

SpecTuned == InitTuned /\ [][NextTuned]_vars

(***************************************************************************)
(* Order of the queue.                                                      *)
(***************************************************************************)
IsNewestFirst(articles) ==
    \A i, j \in DOMAIN articles : i < j => articles[i].pubDate >= articles[j].pubDate

\* lines 294-306: the Fetch Cycle k, answered with newArticles, finds an
\* article that is neither queued nor published nor rejected in its closure
AddsArticles(k, newArticles) ==
    \E a \in Range(newArticles) :
        NormalizedUrl(a.link) \notin HistoryLinks(fetches[k].history)
                                         \cup NormalizedLinks(fetches[k].pending)
                                         \cup fetches[k].removed

\* C26 as stated: after any Fetch Cycle completes, whether or not it added
\* articles, the Queue is ordered by publication timestamp, most recent first
QueueNewestFirstAfterAnyFetch ==
    [][(\E k \in DOMAIN fetches, b \in TunedFeedBatches : FetchReturn(k, b))
           => IsNewestFirst(pendingArticles')]_vars

\* C26: a Fetch Cycle that found an article it did not know saves a Queue
\* ordered by publication timestamp, most recent first; a Fetch Cycle that
\* found none leaves the Queue as it was
MergedQueueIsNewestFirst ==
    [][\A k \in DOMAIN fetches, b \in TunedFeedBatches :
           FetchReturn(k, b)
               => IF AddsArticles(k, b) THEN IsNewestFirst(pendingArticles')
                  ELSE pendingArticles' = pendingArticles]_vars

FourArticlesMerged == pendingArticles = <<ArtPatch, ArtController, ArtGta, ArtMod>>

(***************************************************************************)
(* Settings update.                                                         *)
(***************************************************************************)
Occurrences(articles, article) == Len(SelectSeq(articles, LAMBDA a : a = article))

\* the automation effect ran again and called fetchCycleRef.current()
StartsFetchOfRestart ==
    /\ isAutomationRunning
    /\ Len(fetches') = Len(fetches) + 1
    /\ ~fetches'[Len(fetches')].manual

\* handleUpdateSettings ran: the settings page saved
SettingsSaved ==
    /\ automationSettings' # automationSettings \/ pendingArticles' # pendingArticles
    /\ postingHistory' = postingHistory
    /\ learnedBiases' = learnedBiases
    /\ \E s \in TunedSettingsInputs : SaveSettings(s) \/ SaveSettingsRestart(s)

\* lines 206-217 under the settings saved: the article's total is at least
\* the new minimum score
MeetsNewMinimum(article) ==
    ScoreOf(article, automationSettings', learnedBiases, now).total
        >= automationSettings'.minimumScore

\* line 255: the Queue handleUpdateSettings saved. When the update restarts
\* the automation effect, the Post Cycle the effect starts in the same step
\* may save a Queue of its own; the Fetch Cycle the effect starts holds the
\* Queue of the update in its closure
QueueOfSettingsUpdate ==
    IF StartsFetchOfRestart THEN fetches'[Len(fetches')].pending ELSE pendingArticles'

\* C28: a settings update leaves in the Queue exactly the previously queued
\* articles whose total under the new settings is at least the new minimum
\* score: no other queued article is dropped and no article is added
SettingsUpdateKeepsScoredEnough ==
    [][SettingsSaved
           => \A a \in Range(pendingArticles) \cup Range(QueueOfSettingsUpdate) :
                  Occurrences(QueueOfSettingsUpdate, a) =
                      IF MeetsNewMinimum(a) THEN Occurrences(pendingArticles, a) ELSE 0]_vars

\* a Fetch Cycle in flight still holds "Mod Tools Update", which the raised
\* minimum dropped from the Queue
DroppedUnderRaisedMinimum ==
    /\ automationSettings.minimumScore = TunedSettings.minimumScore
    /\ postingHistory = <<>>
    /\ removedArticleUrls = {}
    /\ ArtGta \in Range(pendingArticles)
    /\ ArtMod \notin Range(pendingArticles)
    /\ \E k \in DOMAIN fetches : ArtMod \in Range(fetches[k].pending)

(***************************************************************************)
(* Adaptive learning.                                                       *)
(***************************************************************************)
\* newBiases.get(word) || 0
BiasOf(biases, word) == IF word \in DOMAIN biases THEN biases[word] ELSE 0

\* handleRemoveArticleFromQueue found the article and adaptive learning is on
RejectsLearning(articleId) ==
    /\ pendingArticles' # pendingArticles
    /\ automationSettings.useAdaptiveLearning
    /\ RemoveArticle(articleId)

\* the title of the queued article find() returns
TitleOfQueued(articleId) ==
    pendingArticles[CHOOSE i \in DOMAIN pendingArticles :
                        /\ pendingArticles[i].id = articleId
                        /\ \A j \in 1..(i - 1) : pendingArticles[j].id # articleId].title

\* C29: with adaptive learning enabled, rejecting a queued article lowers by
\* exactly 1 the bias of each distinct significant word of its title, an
\* absent word counting as 0, and leaves every other BiasMap entry unchanged
RejectionLowersTitleWordsByOne ==
    [][\A id \in TunedArticleIds :
           RejectsLearning(id)
               => LET words == normalizeAndGetWords(TitleOfQueued(id))
                  IN  /\ DOMAIN learnedBiases' = DOMAIN learnedBiases \cup words
                      /\ \A w \in DOMAIN learnedBiases' :
                             learnedBiases'[w] =
                                 BiasOf(learnedBiases, w) - (IF w \in words THEN 1 ELSE 0)]_vars

\* "leaked" was at -2 and "story" at -1 before "New Controller Leaked" was rejected
LearnedOnTopOfPersisted ==
    learnedBiases = MapSet(MapSet(MapSet(PersistedBiases, "leaked", 0 - 3),
                                  "controller", 0 - 1), "new", 0 - 1)

\* C30 as stated: starting from an empty BiasMap with adaptive learning
\* enabled, rejecting "New Controller Leaked" leaves the BiasMap exactly
\* {controller: -1, leaked: -1}
NewGetsNoEntry ==
    [][(learnedBiases = EmptyMap /\ RejectsLearning(ArtController.id))
           => learnedBiases' = MapSet(MapSet(EmptyMap, "controller", 0 - 1),
                                      "leaked", 0 - 1)]_vars

\* C30: starting from an empty BiasMap with adaptive learning enabled,
\* rejecting "New Controller Leaked" leaves the BiasMap exactly
\* {new: -1, controller: -1, leaked: -1}: "new" is not in STOP_WORDS
NewGetsAnEntry ==
    [][(learnedBiases = EmptyMap /\ RejectsLearning(ArtController.id))
           => learnedBiases' = MapSet(MapSet(MapSet(EmptyMap, "controller", 0 - 1),
                                             "leaked", 0 - 1), "new", 0 - 1)]_vars

LearnedFromControllerTitle ==
    /\ learnedBiases = MapSet(MapSet(MapSet(EmptyMap, "controller", 0 - 1),
                                     "leaked", 0 - 1), "new", 0 - 1)
    /\ NormalizedUrl(ArtController.link) \in removedArticleUrls

(***************************************************************************)
(* Scenario: the queue is full and the user fetches by hand (Scenario 5 of  *)
(* the spec: a fetch brings three unique new articles).                     *)
(***************************************************************************)
FullFeedBatches ==
    {<<>>, <<ArtPatch, ArtController, ArtGta>>, <<ArtMod>>, <<ArtDeal, ArtSale>>}

FullArticleIds == {OldStory(1).id, FullQueue[MAX_PENDING_ARTICLES].id, ArtPatch.id}

InitFull ==
    /\ token = FALSE
    /\ isAutomationRunning = FALSE
    /\ isFetchingManually = FALSE
    /\ automationSettings = [BaseSettings EXCEPT !.targetSubreddit = ""]
    /\ postingHistory = <<>>
    /\ pendingArticles = FullQueue
    /\ removedArticleUrls = {}
    /\ learnedBiases = EmptyMap
    /\ fetchTimer = FALSE
    /\ loops = <<>>
    /\ fetches = <<>>
    /\ now = 0

NextFull ==
    \/ \E s \in SettingsInputs : SaveSettings(s)
    \/ ManualFetch
    \/ \E k \in DOMAIN fetches, b \in FullFeedBatches : FetchReturn(k, b)
    \/ \E id \in FullArticleIds : RemoveArticle(id)

SpecFull == InitFull /\ [][NextFull]_vars

\* lines 294-309: the articles the merge of Fetch Cycle k has to choose from
MergeCandidates(k, newArticles) ==
    Range(fetches[k].pending)
        \cup {a \in Range(newArticles) :
                 NormalizedUrl(a.link) \notin HistoryLinks(fetches[k].history)
                                                  \cup NormalizedLinks(fetches[k].pending)
                                                  \cup fetches[k].removed}

\* C27: when a fetch merge produces more than 50 unique articles, the Queue
\* keeps the 50 with the most recent publication timestamps: every evicted
\* article is no newer than every retained one
CapKeepsMostRecent ==
    [][\A k \in DOMAIN fetches, b \in FullFeedBatches :
           (FetchReturn(k, b) /\ AddsArticles(k, b)
                /\ Cardinality(MergeCandidates(k, b)) > MAX_PENDING_ARTICLES)
               => LET retained == Range(pendingArticles')
                      evicted == MergeCandidates(k, b) \ retained
                  IN  /\ Len(pendingArticles') = MAX_PENDING_ARTICLES
                      /\ Cardinality(retained) = MAX_PENDING_ARTICLES
                      /\ retained \subseteq MergeCandidates(k, b)
                      /\ \A e \in evicted, r \in retained : e.pubDate <= r.pubDate]_vars

\* the full Queue of 50 took three unique new articles and lost its three oldest
ThreeOldestDropped ==
    /\ pendingArticles = <<ArtPatch, ArtController, ArtGta>>
                             \o SubSeq(FullQueue, 1, MAX_PENDING_ARTICLES - 3)
    /\ removedArticleUrls = {}

(***************************************************************************)
(* The scheduler: fetch timer, countdown, post interval.                    *)
(***************************************************************************)
\* a step in which fetchCycleRef.current() is called by the automation
\* effect or by its setInterval, not by the manual fetch button
StartsScheduledFetch ==
    /\ Len(fetches') = Len(fetches) + 1
    /\ ~fetches'[Len(fetches')].manual

\* C22: after the fetch on activation, scheduled Fetch Cycles start every 5
\* minutes while automation runs, at times that do not depend on the post
\* interval, on a change of checkInterval while running, or on manual
\* fetches: while automation is running, a scheduled Fetch Cycle starts only
\* when the 5 minute timer fires
ScheduledFetchesOnlyByTimer ==
    [][(isAutomationRunning /\ StartsScheduledFetch) => FetchTimerFire]_vars

\* countdownIntervalRef holds a running interval: startCountdown is called
\* together with the setTimeout that intervalRef tracks, the interval ends
\* itself when that timer is due, and the cleanup clears both
CountdownActive == \E k \in DOMAIN loops : loops[k].pc = "timer" /\ loops[k].tracked

\* C23: after automation is stopped no countdown refresh remains active, so
\* that the scheduler no longer changes the displayed status 'Idle', even
\* when the stop happens while a Post Cycle is in flight
NoCountdownWhileStopped == ~isAutomationRunning => ~CountdownActive

(***************************************************************************)
(* Scenario: the clock is followed. The settings page asks for a post       *)
(* every minute, a submission takes up to MaxElapsedTimed minutes, and the  *)
(* clock stops at MaxNow, before the fetch timer of FETCH_INTERVAL_MINUTES  *)
(* can fire. Automation starts only once settings with a subreddit are      *)
(* saved, so every timer is armed by an effect whose closure holds the      *)
(* checkInterval of TimedSettings.                                          *)
(***************************************************************************)
TimedArticleIds == {ArtMod.id}

InitTimed ==
    /\ token = FALSE
    /\ isAutomationRunning = FALSE
    /\ isFetchingManually = FALSE
    /\ automationSettings = [BaseSettings EXCEPT !.targetSubreddit = ""]
    /\ postingHistory = <<>>
    /\ pendingArticles = <<>>
    /\ removedArticleUrls = {}
    /\ learnedBiases = EmptyMap
    /\ fetchTimer = FALSE
    /\ loops = <<>>
    /\ fetches = <<>>
    /\ now = 0

\* setTimeout(postLoop, checkInterval * 60 * 1000): the time the timer of
\* slot k is due
DueAt(k) == loops[k].armedAt + automationSettings.checkInterval

\* a minute passes; no timer is left behind
Tick ==
    /\ now < MaxNow
    /\ \A k \in DOMAIN loops : loops[k].pc = "timer" => now < DueAt(k)
    /\ now' = now + 1
    /\ UNCHANGED <<token, isAutomationRunning, isFetchingManually, automationSettings,
                   postingHistory, pendingArticles, removedArticleUrls, learnedBiases,
                   fetchTimer, loops, fetches>>

\* the timer of slot k fires when it is due
PostTimerDue(k) ==
    /\ loops[k].pc = "timer"
    /\ now = DueAt(k)
    /\ PostTimerFire(k)

NextTimed ==
    \/ Login /\ WithinCap'
    \/ Logout /\ WithinCap'
    \/ StopAutomation /\ WithinCap'
    \/ StartAutomation /\ WithinCap'
    \/ SaveSettings(TimedSettings) /\ WithinCap'
    \/ ManualFetch /\ WithinCap'
    \/ \E k \in DOMAIN fetches, b \in TimedFeedBatches : FetchReturn(k, b) /\ WithinCap'
    \/ \E k \in DOMAIN loops : PostTimerDue(k) /\ WithinCap'
    \/ \E k \in DOMAIN loops, o \in SubmitOutcomes, d \in 0..MaxElapsedTimed :
           SubmitReturn(k, o, d) /\ WithinCap'
    \/ \E id \in TimedArticleIds : RemoveArticle(id) /\ WithinCap'
    \/ Tick

SpecTimed == InitTimed /\ [][NextTimed]_vars

\* C21: while automation runs, each later Post Cycle starts exactly
\* checkInterval minutes after the start of the previous Post Cycle, whatever
\* the duration of that cycle (the first one starts on activation, in the
\* step of StartAutomation)
PostCycleEveryInterval ==
    [][\A k \in DOMAIN loops :
           (isAutomationRunning /\ PostTimerDue(k))
               => now = loops[k].started + automationSettings.checkInterval]_vars

\* C25: PostingHistory is ordered newest first: of any two entries the one
\* nearer the head has the greater or equal publish timestamp, two entries
\* recorded by the same Post Cycle batch included
HistoryNewestFirst ==
    \A i, j \in DOMAIN postingHistory :
        i < j => postingHistory[i].postedAt >= postingHistory[j].postedAt

(***************************************************************************)
(* The BiasMap over rejections and resets.                                  *)
(***************************************************************************)
\* no entry of the BiasMap is dropped or raised
NoBiasRaised ==
    \A w \in DOMAIN learnedBiases :
        w \in DOMAIN learnedBiases' /\ learnedBiases'[w] <= learnedBiases[w]

\* C31: every BiasMap entry is a negative integer in every reachable state;
\* a step that changes the BiasMap is a reset, which leaves it empty, or
\* raises no entry
BiasesNegativeAndFalling ==
    /\ [](\A w \in DOMAIN learnedBiases : learnedBiases[w] \in Int /\ learnedBiases[w] < 0)
    /\ [][learnedBiases' # learnedBiases
              => IF ResetLearnedData THEN learnedBiases' = EmptyMap ELSE NoBiasRaised]_vars

\* "New Controller Leaked" was rejected and the learned data reset afterwards
ResetAfterRejection ==
    /\ learnedBiases = EmptyMap
    /\ NormalizedUrl(ArtController.link) \in removedArticleUrls

(***************************************************************************)
(* Links of every shape: a persisted queue of one story whose link has any *)
(* of the paths, query strings and fragments below or is no URL at all,    *)
(* with adaptive learning on or off.  The feed publishes the story again   *)
(* under its plain link with another description and source name.          *)
(***************************************************************************)
LinkPaths == {<<"/">>, <<"/", "a">>, <<"/", "a", "/">>, <<"/", "a", "/", "/">>}
LinkSearches == {<<>>, <<[name |-> "utm_source", value |-> "rss"]>>,
                 <<[name |-> "page", value |-> "2"], [name |-> "id", value |-> "7"]>>}
LinkHashes == {"", "top"}
LinkInputs ==
    {Url(<<"x", ".", "c", "o", "m">>, p, s, h) :
        p \in LinkPaths, s \in LinkSearches, h \in LinkHashes} \cup {NotAUrl("not a url")}

LinkStory(link) == Article(link, ArtGta.title, 0 - 40, <<"f", "i", "r", "s", "t">>)
FreshCopy ==
    [Article(Url(<<"x", ".", "c", "o", "m">>, <<"/", "a">>, <<>>, ""), ArtGta.title, 0 - 40,
             <<"u", "p", "d", "a", "t", "e", "d">>) EXCEPT !.sourceName = "mirror"]

LinkFeedBatches == {<<>>, <<FreshCopy>>, <<FreshCopy, ArtMod>>}
LinkArticleIds == {LinkStory(l).id : l \in LinkInputs} \cup {ArtMod.id, ArtDeal.id}
QuietSettings ==
    [BaseSettings EXCEPT !.targetSubreddit = "", !.useAdaptiveLearning = FALSE]

\* handleRemoveArticleFromQueue for an identifier no queued article has:
\* pendingArticles.find returns undefined and the handler does nothing
RemoveUnknownArticle(articleId) ==
    /\ \A i \in DOMAIN pendingArticles : pendingArticles[i].id # articleId
    /\ UNCHANGED vars

InitLinks ==
    /\ token = FALSE
    /\ isAutomationRunning = FALSE
    /\ isFetchingManually = FALSE
    /\ automationSettings \in {[BaseSettings EXCEPT !.targetSubreddit = ""], QuietSettings}
    /\ postingHistory = <<>>
    /\ pendingArticles \in {<<LinkStory(l)>> : l \in LinkInputs}
    /\ removedArticleUrls = {}
    /\ learnedBiases = EmptyMap
    /\ fetchTimer = FALSE
    /\ loops = <<>>
    /\ fetches = <<>>
    /\ now = 0

NextLinks ==
    \/ ManualFetch
    \/ \E k \in DOMAIN fetches, b \in LinkFeedBatches : FetchReturn(k, b)
    \/ \E id \in LinkArticleIds : RemoveArticle(id)
    \/ \E id \in LinkArticleIds : RemoveUnknownArticle(id)

SpecLinks == InitLinks /\ [][NextLinks]_vars

\* C32: link normalization is idempotent: a link that normalizeUrl returned,
\* here the one a removal stored in the removed-link set, is returned
\* unchanged when it is normalized again
RemovedLinksAreFixedPoints ==
    \A u \in removedArticleUrls : normalizeUrl(u) = u

\* a fetched article and a queued one that are copies of one story
SameStory(fetched, queued) ==
    fetched # queued /\ normalizeUrl(fetched.link) = normalizeUrl(queued.link)

\* the fetch cycle of slot k is answered with newArticles and saves a queue
SavesMerge(k, newArticles) ==
    /\ FetchReturn(k, newArticles)
    /\ FetchMerge(fetches[k].pending, fetches[k].history, fetches[k].removed,
                  newArticles).saved

StoredFormOf(u, link) ==
    IF ~link.valid THEN u = link
    ELSE /\ u.valid
         /\ u.hostname = link.hostname
         /\ u.hash = ""
         /\ Range(u.search) = {p \in Range(link.search) : p.name \notin paramsToRemove}
         /\ \A i, j \in DOMAIN u.search :
                i < j => ParamRank(u.search[i].name) <= ParamRank(u.search[j].name)
         /\ u.pathname = IF Len(link.pathname) > 1 /\ link.pathname[Len(link.pathname)] = "/"
                         THEN SubSeq(link.pathname, 1, Len(link.pathname) - 1)
                         ELSE link.pathname

\* the queued articles with the identifier articleId
QueuedWithId(articleId) == {i \in DOMAIN pendingArticles : pendingArticles[i].id = articleId}

\* the step takes the one article with articleId out of the queue, stores its
\* normalized link, leaves the biases alone when learning is off, and
\* changes nothing else
RemovesOnlyThat(articleId) ==
    /\ Cardinality(QueuedWithId(articleId)) = 1
    /\ \E i \in QueuedWithId(articleId) :
           /\ pendingArticles' = RemoveAt(pendingArticles, i)
           /\ \E u \in removedArticleUrls' :
                  /\ StoredFormOf(u, pendingArticles[i].link)
                  /\ removedArticleUrls' = removedArticleUrls \cup {u}
    /\ ~automationSettings.useAdaptiveLearning => learnedBiases' = learnedBiases
    /\ UNCHANGED <<token, isAutomationRunning, isFetchingManually, automationSettings,
                   postingHistory, fetchTimer, loops, fetches, now>>

\* C37: removing a queued article by identifier removes exactly that article
\* and adds its normalized link to the removed-link set, which no step makes
\* smaller; with adaptive learning off the biases stay as they are; removing
\* an identifier that is not queued changes nothing
RemovalTouchesOnlyItsArticle ==
    /\ [][removedArticleUrls \subseteq removedArticleUrls']_vars
    /\ [][\A id \in LinkArticleIds :
              RemoveArticle(id) \/ RemoveUnknownArticle(id) =>
                  IF QueuedWithId(id) # {} THEN RemovesOnlyThat(id) ELSE UNCHANGED vars]_vars

\* with learning off the story was removed from under a link with two query
\* parameters, and nothing was learned
RemovedWithLearningOff ==
    /\ ~automationSettings.useAdaptiveLearning
    /\ pendingArticles = <<>>
    /\ learnedBiases = EmptyMap
    /\ \E u \in removedArticleUrls :
           /\ u.valid
           /\ u.pathname = <<"/", "a">>
           /\ u.search = <<[name |-> "id", value |-> "7"], [name |-> "page", value |-> "2"]>>

(***************************************************************************)
(* Titles of every kind: queued articles whose titles share half, more     *)
(* than half, or none of their significant words with the titles of the    *)
(* history of an earlier session, or have no significant word at all.      *)
(***************************************************************************)
TitleLink(name) == Url(<<"x", ".", "c", "o", "m">>, <<"/", "t", "/", name>>, <<>>, "")

\* "GTA Release Date Trailer": words gta, release, date, trailer
ArtTrailer == Article(TitleLink("trailer"), <<"G", "T", "A", " ", "R", "e", "l", "e", "a", "s", "e", " ", "D", "a", "t", "e", " ", "T", "r", "a", "i", "l", "e", "r">>, 0 - 10, <<>>)
\* "The Of And": stop words only
ArtStopWords == Article(TitleLink("stop"), <<"T", "h", "e", " ", "O", "f", " ", "A", "n", "d">>, 0 - 20, <<>>)
\* "Mod Tools": words mod, tools
ArtTools == Article(TitleLink("tools"), <<"M", "o", "d", " ", "T", "o", "o", "l", "s">>, 0 - 30, <<>>)
\* "GTA!": word gta
ArtShout == Article(TitleLink("shout"), <<"G", "T", "A", "!">>, 0 - 15, <<>>)

\* a history entry of an earlier session with the given title
PostedTitle(name, title, postedAt) ==
    PostedItem(Article(TitleLink(name), title, postedAt, <<>>), "https://redd.it/0", postedAt)

\* "GTA Release": words gta, release
PostedRelease == PostedTitle("h1", <<"G", "T", "A", " ", "R", "e", "l", "e", "a", "s", "e">>, 0 - 60)
\* "It Is": stop words only
PostedStopWords == PostedTitle("h2", <<"I", "t", " ", "I", "s">>, 0 - 70)
\* "Mod Tools Released": words mod, tools, released
PostedTools == PostedTitle("h3", <<"M", "o", "d", " ", "T", "o", "o", "l", "s", " ", "R", "e", "l", "e", "a", "s", "e", "d">>, 0 - 80)

TitleQueues == {<<ArtTrailer, ArtStopWords, ArtTools>>, <<ArtShout, ArtTools>>,
                <<ArtStopWords>>}
TitleHistories == {<<PostedRelease>>, <<PostedStopWords>>, <<PostedStopWords, PostedTools>>,
                   <<PostedRelease, PostedTools>>}

InitTitles ==
    /\ token = FALSE
    /\ isAutomationRunning = FALSE
    /\ isFetchingManually = FALSE
    /\ automationSettings = [BaseSettings EXCEPT !.targetSubreddit = ""]
    /\ postingHistory \in TitleHistories
    /\ pendingArticles \in TitleQueues
    /\ removedArticleUrls = {}
    /\ learnedBiases = EmptyMap
    /\ fetchTimer = FALSE
    /\ loops = <<>>
    /\ fetches = <<>>
    /\ now = 0

NextTitles ==
    \/ Login /\ WithinCap'
    \/ Logout /\ WithinCap'
    \/ StopAutomation /\ WithinCap'
    \/ StartAutomation /\ WithinCap'
    \/ SaveSettings(BaseSettings) /\ WithinCap'
    \/ \E k \in DOMAIN loops : PostTimerFire(k) /\ WithinCap'
    \/ \E k \in DOMAIN loops, o \in SubmitOutcomes, d \in 0..MaxElapsed :
           SubmitReturn(k, o, d) /\ WithinCap'

SpecTitles == InitTitles /\ [][NextTitles]_vars

\* the titles findLocalSemanticDuplicates is given in a post cycle
RecentTitles == MapSeq(Take(postingHistory, HISTORY_TITLES_LIMIT), LAMBDA item : item.title)

\* at least half of the significant words that article's title and some
\* recent history title have together are in both
RetellsRecent(article) ==
    \E h \in DOMAIN RecentTitles :
        LET wordsA == normalizeAndGetWords(article.title)
            wordsB == normalizeAndGetWords(RecentTitles[h])
        IN  /\ wordsA \cup wordsB # {}
            /\ 2 * Cardinality(wordsA \cap wordsB) >= Cardinality(wordsA \cup wordsB)

\* a post cycle starts in this step on a queue that is not empty
StartsDuplicateCheck ==
    /\ token
    /\ automationSettings.targetSubreddit # ""
    /\ automationSettings.useProactiveDuplicateCheck
    /\ pendingArticles # <<>>
    /\ \/ \E k \in DOMAIN loops : PostTimerFire(k)
       \/ StartAutomation

\* C33: findLocalSemanticDuplicates returns, in the order of the queue and
\* each once, the identifiers of exactly the queued articles whose
\* significant words are at least half shared with those of some supplied
\* history title; a title without significant words causes no flag
DuplicatesAreTheSimilar ==
    [][StartsDuplicateCheck =>
          LET ids == findLocalSemanticDuplicates(pendingArticles, RecentTitles)
              similar == SelectSeq(pendingArticles, RetellsRecent)
          IN  /\ ids = [i \in DOMAIN similar |-> similar[i].id]
              /\ \A i, j \in DOMAIN ids : i # j => ids[i] # ids[j]
              /\ FlaggedNow = Range(similar)
              /\ \A a \in Range(pendingArticles) :
                     normalizeAndGetWords(a.title) = {} => a.id \notin Range(ids)]_vars

\* a post cycle in flight flagged the article that shares exactly half of
\* the words and kept working on the one without significant words
HalfSharedFlagged ==
    \E k \in PostCyclesInFlight :
        /\ loops[k].flagged = {ArtTrailer}
        /\ ArtStopWords \in Range(loops[k].process)

(***************************************************************************)
(* Keyword lists of every kind: weights typed with either sign in either   *)
(* list, a keyword in both lists, and queued articles that carry keywords  *)
(* in the title, in the description only, or in both.                      *)
(***************************************************************************)
\* include "release date: 10", "Update: -5", "deal: 4"; exclude "deal: 2",
\* "leak: 3"
SignedSettings ==
    [BaseSettings EXCEPT
        !.targetSubreddit = "",
        !.includeKeywords = <<"r", "e", "l", "e", "a", "s", "e", " ", "d", "a", "t", "e", ":", " ", "1", "0">> \o <<NL>> \o
                           <<"U", "p", "d", "a", "t", "e", ":", " ", "-", "5">> \o <<NL>> \o
                           <<"d", "e", "a", "l", ":", " ", "4">>,
        !.excludeKeywords = <<"d", "e", "a", "l", ":", " ", "2">> \o <<NL>> \o
                           <<"l", "e", "a", "k", ":", " ", "3">>]
\* include "gta"; exclude "update: -3"; every total is kept
PlainSettings ==
    [BaseSettings EXCEPT
        !.targetSubreddit = "",
        !.includeKeywords = <<"g", "t", "a">>,
        !.excludeKeywords = <<"u", "p", "d", "a", "t", "e", ":", " ", "-", "3">>,
        !.minimumScore = 0 - 5]
ScoringSettings == {[BaseSettings EXCEPT !.targetSubreddit = ""], SignedSettings,
                    PlainSettings}

\* the keywords "release date", "update" and "deal", in the title and again
\* in the description
ArtEverything ==
    Article(TitleLink("all"), <<"G", "T", "A", " ", "R", "e", "l", "e", "a", "s", "e", " ", "D", "a", "t", "e", " ", "U", "P", "D", "A", "T", "E">>, 0 - 10,
            <<"T", "h", "e", " ", "r", "e", "l", "e", "a", "s", "e", " ", "d", "a", "t", "e", ",", " ", "a", "n", " ", "u", "p", "d", "a", "t", "e", " ", "a", "n", "d", " ", "a", " ", "d", "e", "a", "l">>)
\* "leak" in the title, "update" and "release date" in the description only
ArtLeak ==
    Article(TitleLink("leak"), <<"B", "i", "g", " ", "L", "e", "a", "k">>, 0 - 20,
            <<"A", "n", " ", "u", "p", "d", "a", "t", "e", " ", "o", "n", " ", "t", "h", "e", " ", "r", "e", "l", "e", "a", "s", "e", " ", "d", "a", "t", "e">>)
\* "deal" in the title, no description
ArtBargain == Article(TitleLink("bargain"), <<"D", "e", "a", "l", " ", "o", "f", " ", "t", "h", "e", " ", "D", "a", "y">>, 0 - 30, <<>>)

ScoringQueue == <<ArtEverything, ArtLeak, ArtBargain>>
ScoringFeedBatches == {<<>>, ScoringQueue, <<ArtBargain>>}
ScoringArticleIds == {ArtEverything.id, ArtLeak.id}

InitScoring ==
    /\ token = FALSE
    /\ isAutomationRunning = FALSE
    /\ isFetchingManually = FALSE
    /\ automationSettings = [BaseSettings EXCEPT !.targetSubreddit = ""]
    /\ postingHistory = <<>>
    /\ pendingArticles = ScoringQueue
    /\ removedArticleUrls = {}
    /\ learnedBiases = EmptyMap
    /\ fetchTimer = FALSE
    /\ loops = <<>>
    /\ fetches = <<>>
    /\ now = 0

NextScoring ==
    \/ \E s \in ScoringSettings : SaveSettings(s)
    \/ ManualFetch
    \/ \E k \in DOMAIN fetches, b \in ScoringFeedBatches : FetchReturn(k, b)
    \/ \E id \in ScoringArticleIds : RemoveArticle(id)

SpecScoring == InitScoring /\ [][NextScoring]_vars

\* keyword occurs in text, whatever the case of the letters
MentionedIn(keyword, text) ==
    \E i \in 1..(Len(text) - Len(keyword) + 1) :
        \A c \in DOMAIN keyword : ToLowerChar(text[i + c - 1]) = ToLowerChar(keyword[c])

RECURSIVE WeightOf(_, _)
\* the sum of the weights of the keywords of the set keywords
WeightOf(weights, keywords) ==
    IF keywords = {} THEN 0
    ELSE LET k == CHOOSE x \in keywords : TRUE
         IN  weights[k] + WeightOf(weights, keywords \ {k})

\* base: every keyword of the title or the description, once
BaseOf(article, weights) ==
    WeightOf(weights, {k \in DOMAIN weights :
                          MentionedIn(k, article.title) \/ MentionedIn(k, article.description)})

\* titleBonus: half the weight, rounded up, of the positive keywords of the title
TitleBonusOf(article, weights) ==
    WeightOf([k \in DOMAIN weights |-> (weights[k] + 1) \div 2],
             {k \in DOMAIN weights : weights[k] > 0 /\ MentionedIn(k, article.title)})

\* the step saves the settings s and re-scores the queue with them
RescoresWith(s) ==
    /\ automationSettings' = s
    /\ loops' = loops
    /\ fetches' = fetches
    /\ SaveSettings(s)

\* C34: base is the sum of the weights of the keywords that occur, whatever
\* the case, in the title or the description, each counted once; titleBonus
\* is the sum of ceil(weight / 2) over the positive keywords of the title;
\* a settings update keeps the articles whose total with these is at least
\* the minimum score
BaseAndTitleBonus ==
    [][\A s \in ScoringSettings :
           RescoresWith(s) =>
               \E weights \in {combinedScoredKeywords(s)} :
                   \A a \in Range(pendingArticles) :
                       \E d \in {ArticleScore(a, s, learnedBiases, now)},
                          base \in {BaseOf(a, weights)},
                          titleBonus \in {TitleBonusOf(a, weights)} :
                           /\ d.base = base
                           /\ d.titleBoost = titleBonus
                           /\ a \in Range(pendingArticles') <=>
                                  base + titleBonus + d.recency + d.sourceAuthority
                                      + d.learnedBias >= s.minimumScore]_vars

\* the settings with signed weights were saved: the article with a negative
\* keyword in its title and positive ones in its description only was kept
\* (base 12, no title bonus), the one with "deal" alone was dropped
KeptOnDescriptionAlone ==
    /\ automationSettings = SignedSettings
    /\ ArtLeak \in Range(pendingArticles)
    /\ ArticleScore(ArtLeak, SignedSettings, EmptyMap, 0).base = 12
    /\ ArticleScore(ArtLeak, SignedSettings, EmptyMap, 0).titleBoost = 0
    /\ ArticleScore(ArtEverything, SignedSettings, EmptyMap, 0).titleBoost = 8
    /\ ArtBargain \notin Range(pendingArticles)

\* the keywords of a list as parseKeywordsWithScores reads them
ListedIn(keywordsString) == DOMAIN parseKeywordsWithScores(keywordsString, 1)

\* C35: in the combined weights of the settings in force every keyword of
\* the exclusion list has a weight of at most 0, the negated magnitude of
\* the weight typed there, also when it is in the inclusion list too, and
\* every keyword of the inclusion list alone has a weight of at least 0
CombinedWeightsSigned ==
    LET weights == combinedScoredKeywords(automationSettings)
        typed == parseKeywordsWithScores(automationSettings.excludeKeywords, 1)
    IN  /\ DOMAIN weights = ListedIn(automationSettings.includeKeywords)
                                \cup ListedIn(automationSettings.excludeKeywords)
        /\ \A k \in ListedIn(automationSettings.excludeKeywords) :
               weights[k] <= 0 /\ weights[k] = 0 - Abs(typed[k])
        /\ \A k \in ListedIn(automationSettings.includeKeywords)
                       \ ListedIn(automationSettings.excludeKeywords) : weights[k] >= 0

\* settings were saved in which "update" is typed negative in the inclusion
\* list and "deal" is in both lists, and they dropped the article on a deal
ExclusionOverrodeInclusion ==
    /\ automationSettings = SignedSettings
    /\ combinedScoredKeywords(automationSettings)[<<"u", "p", "d", "a", "t", "e">>] = 5
    /\ combinedScoredKeywords(automationSettings)[<<"d", "e", "a", "l">>] = 0 - 2
    /\ ArtBargain \notin Range(pendingArticles)
    /\ ArtEverything \in Range(pendingArticles)

\* the article the post cycle of slot k is submitting
InSubmission(k) == loops'[k].batch[loops'[k].i]

\* C38: an article the user removed from the queue is not submitted to the
\* publishing client afterwards: no submission starts for an article whose
\* normalized link is in the removed-link set
RemovedNeverSubmitted ==
    [][\A k \in DOMAIN loops' :
           (/\ loops'[k].pc = "posting"
            /\ NormalizedUrl(InSubmission(k).link) \in removedArticleUrls
            /\ StartsSubmission(k)) => FALSE]_vars

(***************************************************************************)
(* The duplicate check switched off: nothing but the links of the history  *)
(* keeps a posted story from being posted again.                           *)
(***************************************************************************)
UncheckedSettings == [BaseSettings EXCEPT !.useProactiveDuplicateCheck = FALSE]
RepostFeedBatches == {<<>>, <<ArtGta>>, <<ArtGta, ArtMod>>}

NextRepost ==
    \/ Login /\ WithinCap'
    \/ StopAutomation /\ WithinCap'
    \/ StartAutomation /\ WithinCap'
    \/ SaveSettings(UncheckedSettings) /\ WithinCap'
    \/ ManualFetch /\ WithinCap'
    \/ \E k \in DOMAIN fetches, b \in RepostFeedBatches : FetchReturn(k, b) /\ WithinCap'
    \/ \E k \in DOMAIN loops : PostTimerFire(k) /\ WithinCap'
    \/ \E k \in DOMAIN loops, o \in SubmitOutcomes, d \in 0..MaxElapsed :
           SubmitReturn(k, o, d) /\ WithinCap'

SpecRepost == Init /\ [][NextRepost]_vars

\* C39: PostingHistory never holds two entries with the same normalized
\* source link
HistoryLinksDistinct ==
    \A i, j \in DOMAIN postingHistory :
        i # j => NormalizedUrl(postingHistory[i].url) # NormalizedUrl(postingHistory[j].url)

\* the submission the post cycle of slot k awaits is answered with an error
\* other than "already submitted", and no submission of the cycle before it
\* was answered otherwise
FailsLikeAllBefore(k) ==
    /\ loops[k].pc = "posting"
    /\ loops[k].posts = <<>>
    /\ \E o \in SubmitOutcomes, d \in 0..MaxElapsed :
           o.kind \notin {"ok", "already"} /\ SubmitReturn(k, o, d)

\* C40: a Post Cycle with a batch whose submissions all fail with an error
\* other than "already submitted" writes neither the Queue nor the
\* PostingHistory: not when it takes its batch, not at a failed submission,
\* not when it ends; the articles it flagged as duplicates stay queued
AllFailedCycleSavesNothing ==
    [][\A k \in DOMAIN loops :
          /\ (PostTimerFire(k) /\ loops'[k].pc = "posting") =>
                 pendingArticles' = pendingArticles /\ postingHistory' = postingHistory
          /\ FailsLikeAllBefore(k) =>
                 /\ pendingArticles' = pendingArticles
                 /\ postingHistory' = postingHistory
                 /\ loops[k].flagged \cap Range(pendingArticles)
                        \subseteq Range(pendingArticles')]_vars

\* the first submission of a batch of two failed, and the article the cycle
\* flagged as a duplicate is still queued beside the history as it was
FailedOnceFlaggedQueued ==
    \E k \in PostCyclesInFlight :
        /\ loops[k].i = 2
        /\ loops[k].posts = <<>>
        /\ loops[k].flagged # {}
        /\ loops[k].flagged \subseteq Range(pendingArticles)
        /\ postingHistory = PersistedHistory

=============================================================================
